---- MODULE Spec2Model ----
(***************************************************************************)
(* Jenkins-Dashboard: the Jenkins API service (URL resolver, report        *)
(* fetcher, batch aggregator), the react-query layer of the Dashboard      *)
(* that consumes it, and the metrics Analysis derives from the records.    *)
(*                                                                         *)
(* Strings the code inspects character by character (path names, path      *)
(* segments) are sequences of one-character strings.  A JavaScript value   *)
(* that may be null / NaN / a wrongly typed body is a record with a "kind" *)
(* field, so that values of different shapes stay comparable.              *)
(***************************************************************************)
EXTENDS Integers, Sequences, FiniteSets, TLC

VARIABLES
    \* ---- services/jenkinsApi.ts ----
    instances,               \* every JenkinsApiService object created so far
    jenkinsServiceInstance,  \* index of the current instance, 0 = null
    batches,                 \* the calls of getAllureReportsForBuilds so far
    \* ---- App / Dashboard / Analysis ----
    dashboardConfig,         \* App state: dashboardConfig.buildConfigs
    mounted,                 \* the Dashboard route is the one rendered
    isInitialized,           \* Dashboard state: useState(false)
    queryCache,              \* react-query cache: one entry per query key
    fetching,                \* the query fetches in flight: key and batch
    \* ---- URL resolver exercised on its own ----
    urlInput,                \* the build URL handed to the resolver
    urlResult,               \* what JenkinsApiService.parseBuildUrl returned
    cfgResult,               \* what Configuration's inline parsing produced
    \* ---- Analysis: the derived metrics ----
    analysisReports,         \* Analysis: the allureReports of its useQuery
    renders,                 \* renders of Analysis since that data arrived
    historicalTrendData,     \* the three derivations of the latest render
    flakyTestsData,
    environmentMatrixData,
    \* ---- Dashboard: the filter panel ----
    dashboardReports,        \* Dashboard: the allureReports its query delivered
    filters,                 \* Dashboard state: useState<DashboardFilters>({})
    \* ---- Configuration, under App ----
    localStorage,            \* the two keys Configuration and App use
    configuration,           \* the state hooks of Configuration, as last rendered
    effects,                 \* its passive effects that are due, with their closures
    updates,                 \* state updates of Configuration not yet rendered
    appUpdate,               \* App: a setDashboardConfig not yet rendered
    \* ---- LinksHub ----
    linksReports,            \* LinksHub: the allureReports its query delivered
    linksHub                 \* the state hooks of LinksHub, as last rendered

serviceVars == <<instances, jenkinsServiceInstance, batches>>
queryVars   == <<dashboardConfig, mounted, isInitialized, queryCache, fetching>>
urlVars     == <<urlInput, urlResult, cfgResult>>
metricsVars == <<analysisReports, renders, historicalTrendData, flakyTestsData,
                 environmentMatrixData>>
filterVars  == <<dashboardReports, filters>>
configVars  == <<localStorage, configuration, effects, updates, appUpdate>>
linksVars   == <<linksReports, linksHub>>
uiVars      == <<filterVars, configVars, linksVars>>
vars        == <<instances, jenkinsServiceInstance, batches,
                 dashboardConfig, mounted, isInitialized, queryCache, fetching,
                 urlInput, urlResult, cfgResult,
                 analysisReports, renders, historicalTrendData, flakyTestsData,
                 environmentMatrixData,
                 dashboardReports, filters,
                 localStorage, configuration, effects, updates, appUpdate,
                 linksReports, linksHub>>

(***************************************************************************)
(* Bounds of the model.                                                    *)
(***************************************************************************)
MaxSegments  == 4   \* path segments of a build URL handed to the resolver
MaxInstances == 2   \* JenkinsApiService objects created in one run
MaxBatches   == 2   \* calls of getAllureReportsForBuilds in one run
MaxConfigs   == 2   \* build configurations in one list

(***************************************************************************)
(* Characters and strings.                                                 *)
(***************************************************************************)
Digits == {"0", "1", "2", "3", "4", "5", "6", "7", "8", "9"}

DigitVal(c) ==
    CASE c = "0" -> 0 [] c = "1" -> 1 [] c = "2" -> 2 [] c = "3" -> 3
      [] c = "4" -> 4 [] c = "5" -> 5 [] c = "6" -> 6 [] c = "7" -> 7
      [] c = "8" -> 8 [] c = "9" -> 9

\* String.prototype.split('/'): the pieces between the slashes, empty pieces
\* included ("/a//b/" gives "", "a", "", "b", "").
RECURSIVE SplitFrom(_, _, _)
SplitFrom(s, i, cur) ==
    IF i > Len(s) THEN <<cur>>
    ELSE IF s[i] = "/" THEN <<cur>> \o SplitFrom(s, i + 1, <<>>)
    ELSE SplitFrom(s, i + 1, Append(cur, s[i]))

split(s) == SplitFrom(s, 1, <<>>)

\* Array.prototype.filter(Boolean) on strings: the empty string is falsy.
filterBoolean(parts) == SelectSeq(parts, LAMBDA p : p # <<>>)

\* Array.prototype.indexOf, 0-based, -1 when absent.
indexOf(parts, x) ==
    IF \E i \in 1..Len(parts) : parts[i] = x
    THEN (CHOOSE i \in 1..Len(parts) :
             parts[i] = x /\ \A j \in 1..(i - 1) : parts[j] # x) - 1
    ELSE -1

NaN == [isNaN |-> TRUE, value |-> 0]

\* The value of the longest prefix of digits of s starting at i.
RECURSIVE DigitsFrom(_, _, _)
DigitsFrom(s, i, acc) ==
    IF i > Len(s) \/ s[i] \notin Digits THEN acc
    ELSE DigitsFrom(s, i + 1, acc * 10 + DigitVal(s[i]))

\* parseInt(string) without a radix: optional sign, then the longest prefix
\* of decimal digits; whatever follows the digits is ignored; NaN when there
\* is no digit.  (Leading white space and the 0x prefix do not occur in the
\* alphabet of the model.)
parseInt(s) ==
    LET signed == Len(s) >= 1 /\ s[1] \in {"-", "+"}
        start  == IF signed THEN 2 ELSE 1
    IN  IF start > Len(s) \/ s[start] \notin Digits THEN NaN
        ELSE [isNaN |-> FALSE,
              value |-> IF signed /\ s[1] = "-"
                        THEN 0 - DigitsFrom(s, start, 0)
                        ELSE DigitsFrom(s, start, 0)]

isNaN(n) == n.isNaN

(***************************************************************************)
(* Build URLs.  A URL string is given by what `new URL` makes of it: it    *)
(* throws when the string has no scheme, otherwise `pathname` is the path  *)
(* as written (a "/" followed by the segments joined by "/").              *)
(***************************************************************************)
JOB == <<"j", "o", "b">>

\* Path segments the inputs are built from.
Segments ==
    { JOB,
      <<"J", "o", "b">>,       \* a job name differing from "job" in case only
      <<"4", "2">>,            \* a build number
      <<"-", "5">>,            \* a negative number
      <<"4", "2", "a">>,       \* digits followed by other characters
      <<>> }                   \* an empty segment (two slashes in a row)

RECURSIVE Join(_)
Join(segs) == IF segs = <<>> THEN <<>> ELSE <<"/">> \o Head(segs) \o Join(Tail(segs))

SegSeqs(n) == UNION { [1..k -> Segments] : k \in 0..n }

UrlInputs ==
    { [scheme |-> sc, pathname |-> Join(p)] :
        sc \in {"http", ""}, p \in SegSeqs(MaxSegments) }

\* new URL(buildUrl) throws a TypeError for a string without a scheme.
URLThrows(buildUrl) == buildUrl.scheme = ""

Null == [kind |-> "null"]

ToLower(c) == IF c = "J" THEN "j" ELSE c

\* A resolver that normalizes the case of the job name.
parseBuildUrl_LowerCase(buildUrl) ==
    IF URLThrows(buildUrl) THEN Null
    ELSE
      LET pathParts == filterBoolean(split(buildUrl.pathname))
          jobIndex  == indexOf(pathParts, JOB)
      IN  IF jobIndex # -1 /\ jobIndex + 2 < Len(pathParts)
          THEN LET jobName     == pathParts[jobIndex + 2]
                   buildNumber == parseInt(pathParts[jobIndex + 3])
               IN  IF ~isNaN(buildNumber)
                   THEN [kind |-> "buildInfo",
                         jobName |-> [i \in 1..Len(jobName) |-> ToLower(jobName[i])],
                         buildNumber |-> buildNumber.value]
                   ELSE Null
          ELSE Null

\* JenkinsApiService.parseBuildUrl
parseBuildUrl(buildUrl) ==
    IF URLThrows(buildUrl) THEN Null      \* catch (error) -> return null
    ELSE
      LET pathParts == filterBoolean(split(buildUrl.pathname))
          jobIndex  == indexOf(pathParts, JOB)
      IN  IF jobIndex # -1 /\ jobIndex + 2 < Len(pathParts)
          THEN LET jobName     == pathParts[jobIndex + 2]      \* 0-based jobIndex + 1
                   buildNumber == parseInt(pathParts[jobIndex + 3])
               IN  IF ~isNaN(buildNumber)
                   THEN [kind |-> "buildInfo", jobName |-> jobName,
                         buildNumber |-> buildNumber.value]
                   ELSE Null
          ELSE Null

\* Configuration.handleAddBuildConfig / handleUpdateBuildConfig: the same
\* parsing, written inline; each failure raises an alert and adds nothing.
ConfigurationParse(buildUrl) ==
    IF URLThrows(buildUrl) THEN [kind |-> "alert", text |-> "Invalid URL format"]
    ELSE
      LET pathParts == filterBoolean(split(buildUrl.pathname))
          jobIndex  == indexOf(pathParts, JOB)
      IN  IF jobIndex # -1 /\ jobIndex + 2 < Len(pathParts)
          THEN LET jobName     == pathParts[jobIndex + 2]
                   buildNumber == parseInt(pathParts[jobIndex + 3])
               IN  IF ~isNaN(buildNumber)
                   THEN [kind |-> "buildInfo", jobName |-> jobName,
                         buildNumber |-> buildNumber.value]
                   ELSE [kind |-> "alert", text |-> "Could not extract build number"]
          ELSE [kind |-> "alert", text |-> "Expected pattern"]

(***************************************************************************)
(* The Jenkins API service: services/jenkinsApi.ts                         *)
(***************************************************************************)
AuthConfigs ==
    { [jenkinsBaseUrl |-> "http://jenkins-a", jsessionId |-> "session-1"],
      [jenkinsBaseUrl |-> "http://jenkins-b", jsessionId |-> "session-2"] }

\* axios.create({baseURL, timeout: 30000, headers: {Cookie: JSESSIONID=...}})
initializeAxios(baseURL, jsessionId) ==
    [baseURL |-> baseURL, cookie |-> jsessionId, timeout |-> 30000]

\* new JenkinsApiService(config)
JenkinsApiService(config) ==
    [baseURL       |-> config.jenkinsBaseUrl,
     jsessionId    |-> config.jsessionId,
     axiosInstance |-> initializeAxios(config.jenkinsBaseUrl, config.jsessionId)]

\* JenkinsApiService.updateAuth: the same object, its fields overwritten.
updateAuthOf(inst, config) ==
    [baseURL       |-> config.jenkinsBaseUrl,
     jsessionId    |-> config.jsessionId,
     axiosInstance |-> initializeAxios(config.jenkinsBaseUrl, config.jsessionId)]

\* encodeURIComponent: unreserved characters stay, "%" becomes "%25".
RECURSIVE encodeURIComponent(_)
encodeURIComponent(s) ==
    IF s = <<>> THEN <<>>
    ELSE (IF Head(s) = "%" THEN <<"%", "2", "5">> ELSE <<Head(s)>>)
         \o encodeURIComponent(Tail(s))

\* The build URLs of the configurations handed to the service.
UrlUi42  == [scheme |-> "http",
             pathname |-> Join(<< JOB, <<"u", "i">>, <<"4", "2">> >>) \o <<"/">>]
\* A job whose name has a space: Jenkins shows it percent-encoded in the URL.
UrlApi7  == [scheme |-> "http",
             pathname |-> Join(<< JOB, <<"a", "p", "i", "%", "2", "0", "v", "2">>,
                                  <<"7">> >>) \o <<"/">>]
UrlView  == [scheme |-> "http",
             pathname |-> Join(<< <<"v", "i", "e", "w">>, <<"a", "l", "l">> >>)]

CfgUi   == [name |-> "UI tests",  buildUrl |-> UrlUi42]
CfgApi  == [name |-> "API tests", buildUrl |-> UrlApi7]
CfgView == [name |-> "A view",    buildUrl |-> UrlView]

BuildConfigPool == {CfgUi, CfgApi, CfgView}

\* The lists handed to the service: up to n configurations, each at most
\* once.
ConfigLists(n) ==
    { l \in UNION { [1..k -> BuildConfigPool] : k \in 0..n } :
        \A i, j \in 1..Len(l) : i # j => l[i] # l[j] }

\* Response bodies.
SummaryBody == [kind |-> "summary", total |-> 10, passed |-> 8, failed |-> 2,
                broken |-> 0, skipped |-> 0]
ResultsBody == [kind |-> "results",
                items |-> << [name |-> "login", status |-> "failed"] >>]
HtmlBody    == [kind |-> "text", text |-> "<html>login</html>"]
EmptyList   == [kind |-> "results", items |-> <<>>]

\* What an axios get can end with: a 2xx response with a body, a timeout
\* after 30000 ms, or a response outside 2xx (both reject the promise).
Timeout   == [kind |-> "timeout"]
HttpError == [kind |-> "http", status |-> 500]
Ok(body)  == [kind |-> "ok", data |-> body]

\* A 401 answer: the response interceptor logs 'Authentication failed' and
\* passes the rejection on unchanged.  Both reads go through the same
\* interceptor; the summary read is the one that meets it here.
AuthRejected == [kind |-> "http", status |-> 401]

SummaryResponses == {Ok(SummaryBody), Ok(HtmlBody), Timeout, HttpError, AuthRejected}
ResultsResponses == {Ok(ResultsBody), Ok(HtmlBody), Timeout, HttpError}

Rejected(r) == r.kind \in {"timeout", "http"}

\* JavaScript truthiness of a response body (for `response.data || []`).
Falsy(body) == body.kind = "null" \/ (body.kind = "text" /\ body.text = "")

\* JenkinsApiService.getAllureSummary once its read has ended with `response`
\* ([kind |-> "none"] when the URL did not parse and no read was issued).
getAllureSummary(buildUrl, response) ==
    IF parseBuildUrl(buildUrl) = Null THEN Null   \* throw ... catch -> null
    ELSE IF Rejected(response) THEN Null          \* catch -> null
    ELSE response.data

\* JenkinsApiService.getAllureResults, likewise.
getAllureResults(buildUrl, response) ==
    IF parseBuildUrl(buildUrl) = Null THEN EmptyList
    ELSE IF Rejected(response) THEN EmptyList
    ELSE IF Falsy(response.data) THEN EmptyList ELSE response.data

\* JenkinsApiService.getAllureReportUrl
getAllureReportUrl(inst, buildUrl) ==
    LET buildInfo == parseBuildUrl(buildUrl)
    IN  IF buildInfo = Null THEN [kind |-> "buildUrl", url |-> buildUrl]
        ELSE [kind |-> "allure", base |-> inst.baseURL,
              job |-> encodeURIComponent(buildInfo.jobName),
              n |-> buildInfo.buildNumber]

\* The request a read sends: axiosInstance.get(`/job/${job}/${n}/...`)
Request(inst, buildUrl, file) ==
    LET buildInfo == parseBuildUrl(buildUrl)
    IN  [baseURL |-> inst.axiosInstance.baseURL,
         cookie  |-> inst.axiosInstance.cookie,
         job     |-> encodeURIComponent(buildInfo.jobName),
         n       |-> buildInfo.buildNumber,
         file    |-> file]

\* A fetcher that keeps the outcomes only when there is a summary too.
getAllureReportData_AllOrNothing(inst, buildConfig, summary, results) ==
    [buildConfig |-> buildConfig, summary |-> summary,
     results |-> IF summary = Null THEN EmptyList ELSE results,
     reportUrl |-> getAllureReportUrl(inst, buildConfig.buildUrl),
     status |-> "success"]

\* JenkinsApiService.getAllureReportData once both of its promises have
\* ended with the values summary and results; inst is `this` at that time.
getAllureReportData(inst, buildConfig, summary, results) ==
    IF summary.kind = "rejected" \/ results.kind = "rejected"
    THEN [buildConfig |-> buildConfig, summary |-> Null, results |-> EmptyList,
          reportUrl |-> getAllureReportUrl(inst, buildConfig.buildUrl),
          status |-> "error", errorMessage |-> "Unknown error"]
    ELSE [buildConfig |-> buildConfig, summary |-> summary, results |-> results,
          reportUrl |-> getAllureReportUrl(inst, buildConfig.buildUrl),
          status |-> "success"]

Pending == [kind |-> "pending"]
NoRead  == [kind |-> "none"]

\* An aggregator that gives up as soon as a build has brought no data.
PromiseAll_FailFast(records, order) ==
    IF \E i \in 1..Len(records) :
          /\ records[i] # Pending
          /\ records[i].summary = Null
          /\ records[i].results = EmptyList
    THEN [kind |-> "rejected"]
    ELSE IF \E i \in 1..Len(records) : records[i] = Pending THEN Pending
    ELSE [kind |-> "resolved", value |-> records]

\* An aggregator that collects the records as they are completed.
PromiseAll_CompletionOrder(records, order) ==
    IF \E i \in 1..Len(records) : records[i] = Pending THEN Pending
    ELSE [kind |-> "resolved", value |-> [k \in 1..Len(order) |-> records[order[k]]]]

\* Promise.all over the records of a batch, `order` being the order in
\* which they were completed: pending until each is there, then the values
\* in the order of the promises it was given.
PromiseAll(records, order) ==
    IF \E i \in 1..Len(records) : records[i] = Pending THEN Pending
    ELSE [kind |-> "resolved", value |-> records]

\* An aggregator that fetches one build after the other: the reads of a
\* configuration wait until the builds before it are done.
IssueReads_OneAtATime(inst, buildConfigs) ==
    [i \in 1..Len(buildConfigs) |->
        IF parseBuildUrl(buildConfigs[i].buildUrl) = Null
        THEN [summary |-> NoRead, results |-> NoRead]
        ELSE IF i > 1
        THEN [summary |-> [kind |-> "waiting"], results |-> [kind |-> "waiting"]]
        ELSE [summary |-> [kind |-> "inflight",
                           request |-> Request(inst, buildConfigs[i].buildUrl, "summary.json")],
              results |-> [kind |-> "inflight",
                           request |-> Request(inst, buildConfigs[i].buildUrl, "testresult.json")]]]

\* JenkinsApiService.getAllureReportsForBuilds: the state of a call right
\* after it was made.  Each getAllureReportData runs up to its first await,
\* so both reads of every configuration whose URL parses are sent at once;
\* a configuration whose URL does not parse sends nothing.
IssueReads(inst, buildConfigs) ==
    [i \in 1..Len(buildConfigs) |->
        IF parseBuildUrl(buildConfigs[i].buildUrl) = Null
        THEN [summary |-> NoRead, results |-> NoRead]
        ELSE [summary |-> [kind |-> "inflight",
                           request |-> Request(inst, buildConfigs[i].buildUrl, "summary.json")],
              results |-> [kind |-> "inflight",
                           request |-> Request(inst, buildConfigs[i].buildUrl, "testresult.json")]]]

Settled(read) == read.kind \in {"none", "settled"}

ResponseOf(read) == IF read.kind = "settled" THEN read.response ELSE NoRead

\* The records of a batch after its reads have come to the state `reads`:
\* a record is built when both promises of its configuration have ended.
BuildRecords(inst, buildConfigs, reads, records) ==
    [i \in 1..Len(buildConfigs) |->
        IF records[i] # Pending THEN records[i]
        ELSE IF Settled(reads[i].summary) /\ Settled(reads[i].results)
        THEN getAllureReportData(inst, buildConfigs[i],
                 getAllureSummary(buildConfigs[i].buildUrl, ResponseOf(reads[i].summary)),
                 getAllureResults(buildConfigs[i].buildUrl, ResponseOf(reads[i].results)))
        ELSE Pending]

\* The indices of the records completed by a step, appended in index order.
RECURSIVE NewlyDone(_, _, _)
NewlyDone(old, new, i) ==
    IF i > Len(new) THEN <<>>
    ELSE (IF old[i] = Pending /\ new[i] # Pending THEN <<i>> ELSE <<>>)
         \o NewlyDone(old, new, i + 1)

getAllureReportsForBuilds(instIndex, inst, buildConfigs) ==
    LET reads   == IssueReads(inst, buildConfigs)
        none    == [i \in 1..Len(buildConfigs) |-> Pending]
        records == BuildRecords(inst, buildConfigs, reads, none)
        order   == NewlyDone(none, records, 1)
    IN  [inst     |-> instIndex,
         started  |-> [baseURL |-> inst.baseURL, jsessionId |-> inst.jsessionId],
         configs  |-> buildConfigs,
         reads    |-> reads,
         records  |-> records,
         order    |-> order,
         result   |-> PromiseAll(records, order)]

(***************************************************************************)
(* Operations of the service.                                              *)
(***************************************************************************)
\* jenkinsService.initialize(config)
Initialize(config) ==
    /\ Len(instances) < MaxInstances
    /\ instances' = Append(instances, JenkinsApiService(config))
    /\ jenkinsServiceInstance' = Len(instances) + 1
    /\ UNCHANGED batches

\* jenkinsService.updateAuth(config)
UpdateAuth(config) ==
    /\ jenkinsServiceInstance # 0
    /\ instances' = [instances EXCEPT ![jenkinsServiceInstance] =
                        updateAuthOf(instances[jenkinsServiceInstance], config)]
    /\ UNCHANGED <<jenkinsServiceInstance, batches>>

\* The configurations fetched so far.  Batches share no state but the
\* service instance, so a run fetches each configuration at most once.
FetchedConfigs ==
    UNION { { batches[b].configs[i] : i \in 1..Len(batches[b].configs) } :
              b \in 1..Len(batches) }

\* jenkinsService.getAllureReportsForBuilds(buildConfigs); getInstance
\* throws while no instance exists.
StartBatch(buildConfigs) ==
    /\ jenkinsServiceInstance # 0
    /\ Len(batches) < MaxBatches
    /\ \A i \in 1..Len(buildConfigs) : buildConfigs[i] \notin FetchedConfigs
    /\ batches' = Append(batches,
          getAllureReportsForBuilds(jenkinsServiceInstance,
                                    instances[jenkinsServiceInstance], buildConfigs))
    /\ UNCHANGED <<instances, jenkinsServiceInstance>>

\* One read of a batch ends with `response`; every continuation that this
\* unblocks runs before anything else happens.
SettleIn(batch, i, which, response) ==
    LET inst    == instances[batch.inst]
        reads   == [batch.reads EXCEPT ![i][which] =
                      [kind |-> "settled", request |-> @.request, response |-> response]]
        records == BuildRecords(inst, batch.configs, reads, batch.records)
        order   == batch.order \o NewlyDone(batch.records, records, 1)
    IN  [batch EXCEPT !.reads = reads, !.records = records, !.order = order,
                      !.result = PromiseAll(records, order)]

ReadSettles(b, i, which, response) ==
    /\ batches[b].reads[i][which].kind = "inflight"
    /\ batches' = [batches EXCEPT ![b] = SettleIn(batches[b], i, which, response)]
    /\ UNCHANGED <<instances, jenkinsServiceInstance>>

SummarySettles ==
    \E b \in 1..Len(batches) : \E i \in 1..Len(batches[b].configs) :
        \E r \in SummaryResponses : ReadSettles(b, i, "summary", r)

ResultsSettles ==
    \E b \in 1..Len(batches) : \E i \in 1..Len(batches[b].configs) :
        \E r \in ResultsResponses : ReadSettles(b, i, "results", r)

ServiceInit ==
    /\ instances = <<>>
    /\ jenkinsServiceInstance = 0
    /\ batches = <<>>

QueryIdle ==
    /\ dashboardConfig = <<>>
    /\ mounted = FALSE
    /\ isInitialized = FALSE
    /\ queryCache = {}
    /\ fetching = {}

UrlIdle ==
    /\ urlInput = [scheme |-> "", pathname |-> <<>>]
    /\ urlResult = Pending
    /\ cfgResult = Pending

\* Analysis before its first render: `data: allureReports = []`.
MetricsIdle ==
    /\ analysisReports = <<>>
    /\ renders = 0
    /\ historicalTrendData = Pending
    /\ flakyTestsData = Pending
    /\ environmentMatrixData = Pending

\* Dashboard before its query delivers: `data: allureReports = []`, no
\* filter set.
FilterIdle ==
    /\ dashboardReports = <<>>
    /\ filters = [field \in {} |-> ""]

\* An object without fields: {}.
EmptyObject == [field \in {} |-> ""]

\* The keys of localStorage.
AuthKey   == "jenkins-auth-config"
BuildsKey == "jenkins-build-configs"

\* localStorage in a browser that never saved a configuration.
EmptyStorage == [key \in {AuthKey, BuildsKey} |-> Null]

\* Configuration: the initial value of useState<AuthenticationConfig>.
InitialAuthConfig ==
    [jsessionId |-> "", jenkinsBaseUrl |-> "http://cmob-jenkins.td.com:8080"]

\* Configuration: the initial values of its state hooks.  editingIndex
\* counts from 1 and 0 stands for null; testMessage is display text only.
ConfigurationState(isMounted) ==
    [mounted         |-> isMounted,
     authConfig      |-> InitialAuthConfig,
     buildConfigs    |-> <<>>,
     newBuildConfig  |-> EmptyObject,
     isAddDialogOpen |-> FALSE,
     editingIndex    |-> 0,
     isTesting       |-> FALSE,
     testResult      |-> "null"]

\* The route /configuration is not rendered.
ConfigIdle ==
    /\ localStorage = EmptyStorage
    /\ configuration = ConfigurationState(FALSE)
    /\ effects = <<>>
    /\ updates = EmptyObject
    /\ appUpdate = Null

\* LinksHub: the initial values of its state hooks; text the code trims
\* is a sequence of characters.
LinksHubState ==
    [selectedBuild   |-> Null,
     claimDialogOpen |-> FALSE,
     claimedBy       |-> <<>>,
     claimNotes      |-> <<>>,
     claimedBuilds   |-> <<>>]

\* LinksHub before its query delivers: `data: allureReports = []`.
LinksIdle ==
    /\ linksReports = <<>>
    /\ linksHub = LinksHubState

UiIdle == FilterIdle /\ ConfigIdle /\ LinksIdle

(***************************************************************************)
(* Spec: the service under one connection.  It is initialized once, then   *)
(* any caller starts batches and the reads end in any order with any       *)
(* response.                                                               *)
(***************************************************************************)
Init == ServiceInit /\ QueryIdle /\ UrlIdle /\ MetricsIdle /\ UiIdle

InitializeOnce ==
    /\ jenkinsServiceInstance = 0
    /\ \E c \in AuthConfigs : Initialize(c)

Next ==
    \/ InitializeOnce /\ UNCHANGED <<queryVars, urlVars, metricsVars, uiVars>>
    \/ (\E l \in ConfigLists(MaxConfigs) : StartBatch(l)) /\ UNCHANGED <<queryVars, urlVars, metricsVars, uiVars>>
    \/ SummarySettles /\ UNCHANGED <<queryVars, urlVars, metricsVars, uiVars>>
    \/ ResultsSettles /\ UNCHANGED <<queryVars, urlVars, metricsVars, uiVars>>

Spec == Init /\ [][Next]_vars

(***************************************************************************)
(* SpecAuth: the service while the connection is replaced (initialize) or  *)
(* changed in place (updateAuth) with batches in flight.                   *)
(***************************************************************************)
\* Here a read ends with a well-formed body or with a timeout.
SummaryEnds ==
    \E b \in 1..Len(batches) : \E i \in 1..Len(batches[b].configs) :
        \E r \in {Ok(SummaryBody), Timeout} : ReadSettles(b, i, "summary", r)

ResultsEnds ==
    \E b \in 1..Len(batches) : \E i \in 1..Len(batches[b].configs) :
        \E r \in {Ok(ResultsBody), Timeout} : ReadSettles(b, i, "results", r)

NextAuth ==
    \/ (\E c \in AuthConfigs : Initialize(c)) /\ UNCHANGED <<queryVars, urlVars, metricsVars, uiVars>>
    \/ (\E c \in AuthConfigs : UpdateAuth(c)) /\ UNCHANGED <<queryVars, urlVars, metricsVars, uiVars>>
    \/ (\E l \in ConfigLists(MaxConfigs) : StartBatch(l)) /\ UNCHANGED <<queryVars, urlVars, metricsVars, uiVars>>
    \/ SummaryEnds /\ UNCHANGED <<queryVars, urlVars, metricsVars, uiVars>>
    \/ ResultsEnds /\ UNCHANGED <<queryVars, urlVars, metricsVars, uiVars>>

SpecAuth == Init /\ [][NextAuth]_vars

(***************************************************************************)
(* SpecUrl: the URL resolver applied to every build URL of UrlInputs.      *)
(***************************************************************************)
InitUrl ==
    /\ ServiceInit /\ QueryIdle /\ MetricsIdle /\ UiIdle
    /\ urlInput \in UrlInputs
    /\ urlResult = Pending
    /\ cfgResult = Pending

\* A caller of the service resolves the URL.
ResolveUrl ==
    /\ urlResult = Pending
    /\ urlResult' = parseBuildUrl(urlInput)
    /\ UNCHANGED <<urlInput, cfgResult>>

\* Configuration parses the URL typed into the dialog.
ConfigurationResolveUrl ==
    /\ cfgResult = Pending
    /\ cfgResult' = ConfigurationParse(urlInput)
    /\ UNCHANGED <<urlInput, urlResult>>

NextUrl ==
    \/ ResolveUrl /\ UNCHANGED <<serviceVars, queryVars, metricsVars, uiVars>>
    \/ ConfigurationResolveUrl /\ UNCHANGED <<serviceVars, queryVars, metricsVars, uiVars>>

SpecUrl == InitUrl /\ [][NextUrl]_vars

(***************************************************************************)
(* SpecQuery: App and Dashboard over the service.  App holds the list of   *)
(* build configurations; Dashboard initializes the service from the saved  *)
(* authentication and fetches the reports through useQuery, whose cache    *)
(* has one entry per query key (keys are compared by their content).       *)
(***************************************************************************)
\* localStorage 'jenkins-auth-config' as Configuration saved it.
SavedAuth == [jenkinsBaseUrl |-> "http://jenkins-a", jsessionId |-> "session-1"]

\* The lists Configuration can have saved: it adds a configuration only
\* when its URL parses.
SavedLists(n) ==
    { l \in ConfigLists(n) :
        \A i \in 1..Len(l) : ConfigurationParse(l[i].buildUrl).kind = "buildInfo" }

\* A query key that leaves the configuration list out.
QueryKey_WithoutConfigs(buildConfigs) == <<"allure-reports">>

\* Dashboard: useQuery(['allure-reports', config.buildConfigs], ...)
QueryKey(buildConfigs) == <<"allure-reports", buildConfigs>>

\* A query enabled as soon as there are configurations.
Enabled_ConfigsOnly == Len(dashboardConfig) > 0

\* Dashboard: enabled: isInitialized && config.buildConfigs.length > 0
Enabled == isInitialized /\ Len(dashboardConfig) > 0

\* Dashboard: data: allureReports = [] -- the data cached under the key of
\* this render.
allureReports ==
    IF \E e \in queryCache : e.key = QueryKey(dashboardConfig)
    THEN (CHOOSE e \in queryCache : e.key = QueryKey(dashboardConfig)).data
    ELSE <<>>

\* The fetches among fs whose batch has resolved in bs.
Arrived(fs, bs) == { f \in fs : bs[f.batch].result.kind = "resolved" }

\* react-query stores what a fetch resolved with under the key of that
\* fetch, replacing the data the key had.
CacheAfter(cache, fs, bs) ==
    { e \in cache : \A f \in Arrived(fs, bs) : f.key # e.key }
      \cup { [key |-> f.key, data |-> bs[f.batch].result.value] : f \in Arrived(fs, bs) }

\* App: setDashboardConfig (the load effect, or handleConfigUpdate called
\* by Configuration) replaces the list.
SetDashboardConfig(buildConfigs) ==
    /\ buildConfigs # dashboardConfig
    /\ dashboardConfig' = buildConfigs
    /\ UNCHANGED <<mounted, isInitialized, queryCache, fetching, serviceVars>>

\* The route "/" is rendered: Dashboard mounts with fresh state.
MountDashboard ==
    /\ ~mounted
    /\ mounted' = TRUE
    /\ isInitialized' = FALSE
    /\ UNCHANGED <<dashboardConfig, queryCache, fetching, serviceVars>>

\* Another route is rendered: Dashboard unmounts; its fetches go on.
UnmountDashboard ==
    /\ mounted
    /\ mounted' = FALSE
    /\ isInitialized' = FALSE
    /\ UNCHANGED <<dashboardConfig, queryCache, fetching, serviceVars>>

\* Dashboard: the initialization effect.
InitializeEffect ==
    /\ mounted
    /\ Len(dashboardConfig) > 0
    /\ ~isInitialized
    /\ Initialize(SavedAuth)
    /\ isInitialized' = TRUE
    /\ UNCHANGED <<dashboardConfig, mounted, queryCache, fetching>>

\* useQuery starts a fetch of the current key (on mount, on a new key, on
\* the refetch interval, on refetch) unless that key is being fetched.
QueryFetch ==
    /\ mounted
    /\ Enabled
    /\ \A f \in fetching : f.key # QueryKey(dashboardConfig)
    /\ StartBatch(dashboardConfig)
    /\ LET fs == fetching \cup {[key |-> QueryKey(dashboardConfig), batch |-> Len(batches) + 1]}
       IN  /\ queryCache' = CacheAfter(queryCache, fs, batches')
           /\ fetching' = fs \ Arrived(fs, batches')
    /\ UNCHANGED <<dashboardConfig, mounted, isInitialized>>

\* A read ends; a batch that resolves with it is stored in the cache.
QuerySettles(settles) ==
    /\ settles
    /\ queryCache' = CacheAfter(queryCache, fetching, batches')
    /\ fetching' = fetching \ Arrived(fetching, batches')
    /\ UNCHANGED <<dashboardConfig, mounted, isInitialized>>

InitQuery == ServiceInit /\ QueryIdle /\ UrlIdle /\ MetricsIdle /\ UiIdle

NextQuery ==
    \/ (\E l \in SavedLists(MaxConfigs) : SetDashboardConfig(l)) /\ UNCHANGED <<urlVars, metricsVars, uiVars>>
    \/ MountDashboard /\ UNCHANGED <<urlVars, metricsVars, uiVars>>
    \/ UnmountDashboard /\ UNCHANGED <<urlVars, metricsVars, uiVars>>
    \/ InitializeEffect /\ UNCHANGED <<urlVars, metricsVars, uiVars>>
    \/ QueryFetch /\ UNCHANGED <<urlVars, metricsVars, uiVars>>
    \/ QuerySettles(SummaryEnds) /\ UNCHANGED <<urlVars, metricsVars, uiVars>>
    \/ QuerySettles(ResultsEnds) /\ UNCHANGED <<urlVars, metricsVars, uiVars>>

SpecQuery == InitQuery /\ [][NextQuery]_vars

(***************************************************************************)
(* Analysis: the metrics derived from the report records.                  *)
(*                                                                         *)
(* A JavaScript object used as a dictionary is the sequence of its own     *)
(* entries [key, value] in insertion order, which is the order of          *)
(* Object.entries and Object.values for keys that are not integers.  A     *)
(* number that need not be an integer is kept exactly: failureRate as the  *)
(* ratio num/den, successRate (a multiple of 1/100) as its count of        *)
(* hundredths.  The sums of the model stay far below the size at which the *)
(* floating point of the code would round differently.                     *)
(***************************************************************************)
MaxReports == 3   \* report records handed to Analysis
MaxRenders == 2   \* renders of Analysis over the same records

\* .slice(0, 10): the length of the flaky-test list
TopN == 10

DigitChars == <<"0", "1", "2", "3", "4", "5", "6", "7", "8", "9">>

\* The decimal digits of a natural number.
RECURSIVE ToDigits(_)
ToDigits(n) ==
    IF n < 10 THEN <<DigitChars[n + 1]>>
    ELSE ToDigits(n \div 10) \o <<DigitChars[(n % 10) + 1]>>

RECURSIVE PadZeros(_, _)
PadZeros(s, width) == IF Len(s) >= width THEN s ELSE PadZeros(<<"0">> \o s, width)

\* date-fns format(date, 'yyyy-MM-dd'); a Date is its local-time fields.
format(date) ==
    PadZeros(ToDigits(date.year), 4) \o <<"-">> \o
    PadZeros(ToDigits(date.month), 2) \o <<"-">> \o
    PadZeros(ToDigits(date.day), 2)

\* Date.prototype.getTime as far as comparisons go: increasing with time.
getTime(date) == ((date.year * 12 + date.month) * 31 + date.day) * 24 + date.hours

\* new Date() at the tick-th render: later than every record, and later at
\* every render.
newDate(tick) == [year |-> 2030, month |-> 1, day |-> 1, hours |-> tick]

\* String.prototype.localeCompare on the characters of a formatted date.
Collation == <<"-", "0", "1", "2", "3", "4", "5", "6", "7", "8", "9">>

CollationRank(c) == CHOOSE i \in 1..Len(Collation) : Collation[i] = c

RECURSIVE localeCompare(_, _)
localeCompare(a, b) ==
    IF a = <<>> /\ b = <<>> THEN 0
    ELSE IF a = <<>> THEN -1
    ELSE IF b = <<>> THEN 1
    ELSE IF Head(a) = Head(b) THEN localeCompare(Tail(a), Tail(b))
    ELSE IF CollationRank(Head(a)) < CollationRank(Head(b)) THEN -1 ELSE 1

\* Properties every object literal inherits from Object.prototype: acc[key]
\* is truthy for them before anything was stored under key.
ObjectPrototypeKeys == {"constructor", "toString", "valueOf", "hasOwnProperty"}

\* acc[key] is an own entry of acc
Has(acc, key) == \E k \in 1..Len(acc) : acc[k].key = key

KeyIndex(acc, key) == CHOOSE k \in 1..Len(acc) : acc[k].key = key

\* A rounding that drops the digits after the hundredths.
MathRound_Truncates(num, den) == num \div den

\* Math.round(num / den) for num >= 0 and den > 0: the nearest integer,
\* a half rounded up.
MathRound(num, den) == (2 * num + den) \div (2 * den)

\* reports.reduce(...) over the summaries: { total, passed, failed }
RECURSIVE aggregatedResults(_)
aggregatedResults(reports) ==
    IF reports = <<>> THEN [total |-> 0, passed |-> 0, failed |-> 0]
    ELSE LET acc    == aggregatedResults(SubSeq(reports, 1, Len(reports) - 1))
             report == reports[Len(reports)]
         IN  IF report.summary # Null
             THEN [total  |-> acc.total + report.summary.total,
                   passed |-> acc.passed + report.summary.passed,
                   failed |-> acc.failed + report.summary.failed]
             ELSE acc

\* Math.round(successRate * 100) / 100 with successRate = passed / total * 100
\* (0 when total is 0), in hundredths.
successRate(agg) ==
    IF agg.total > 0 THEN MathRound(agg.passed * 10000, agg.total) ELSE 0

\* A grouping by day in which every record takes part.
RECURSIVE reportsByDate_EveryRecord(_, _, _)
reportsByDate_EveryRecord(reports, i, acc) ==
    IF i > Len(reports) THEN acc
    ELSE LET date == format(reports[i].lastUpdated)
             acc1 == IF Has(acc, date) THEN acc
                     ELSE Append(acc, [key |-> date, value |-> <<>>])
             k    == KeyIndex(acc1, date)
         IN  reportsByDate_EveryRecord(reports, i + 1,
                 [acc1 EXCEPT ![k].value = Append(@, reports[i])])

\* allureReports.reduce(...) of generateHistoricalTrendData, from the i-th
\* record on: only a record with a summary is put under its day.  (A
\* formatted date is never the name of an inherited property.)
RECURSIVE reportsByDate(_, _, _)
reportsByDate(reports, i, acc) ==
    IF i > Len(reports) THEN acc
    ELSE IF reports[i].summary = Null THEN reportsByDate(reports, i + 1, acc)
    ELSE LET date == format(reports[i].lastUpdated)
             acc1 == IF Has(acc, date) THEN acc
                     ELSE Append(acc, [key |-> date, value |-> <<>>])
             k    == KeyIndex(acc1, date)
         IN  reportsByDate(reports, i + 1,
                 [acc1 EXCEPT ![k].value = Append(@, reports[i])])

\* A sort that leaves the entries as they are.
sortByDate_Unsorted(entries) == entries

RECURSIVE InsertByDate(_, _)
InsertByDate(sorted, e) ==
    IF sorted = <<>> THEN <<e>>
    ELSE IF localeCompare(e.key, sorted[Len(sorted)].key) < 0
    THEN Append(InsertByDate(SubSeq(sorted, 1, Len(sorted) - 1), e), sorted[Len(sorted)])
    ELSE Append(sorted, e)

RECURSIVE SortedByDate(_)
SortedByDate(entries) ==
    IF entries = <<>> THEN <<>>
    ELSE InsertByDate(SortedByDate(SubSeq(entries, 1, Len(entries) - 1)),
                      entries[Len(entries)])

\* .sort(([a], [b]) => a.localeCompare(b)); Array.prototype.sort is stable.
sortByDate(entries) == SortedByDate(entries)

\* Analysis.generateHistoricalTrendData
generateHistoricalTrendData(reports) ==
    IF Len(reports) = 0 THEN <<>>
    ELSE LET entries == sortByDate(reportsByDate(reports, 1, <<>>))
         IN  [k \in 1..Len(entries) |->
                LET agg == aggregatedResults(entries[k].value)
                IN  [date        |-> entries[k].key,
                     totalTests  |-> agg.total,
                     passedTests |-> agg.passed,
                     failedTests |-> agg.failed,
                     successRate |-> successRate(agg)]]

\* allureReports.flatMap(report => report.results.map(...))
RECURSIVE testResults(_)
testResults(reports) ==
    IF reports = <<>> THEN <<>>
    ELSE LET report == reports[Len(reports)]
         IN  testResults(SubSeq(reports, 1, Len(reports) - 1)) \o
             [j \in 1..Len(report.results) |->
                [testName  |-> report.results[j].name,
                 jobName   |-> report.buildConfig.jobName,
                 status    |-> report.results[j].status,
                 timestamp |-> report.lastUpdated]]

\* A count of the runs that never notes when a test failed.
RECURSIVE testStats_NoLastFailure(_, _, _)
testStats_NoLastFailure(tests, i, acc) ==
    IF i > Len(tests) THEN acc
    ELSE LET test == tests[i]
         IN  IF test.testName \in ObjectPrototypeKeys
             THEN testStats_NoLastFailure(tests, i + 1, acc)
             ELSE
             LET acc1 == IF Has(acc, test.testName) THEN acc
                         ELSE Append(acc, [key |-> test.testName,
                                 value |-> [testName |-> test.testName,
                                            jobName |-> test.jobName,
                                            totalRuns |-> 0, failures |-> 0,
                                            lastFailure |-> Null]])
                 k    == KeyIndex(acc1, test.testName)
                 old  == acc1[k].value
                 bad  == test.status \in {"failed", "broken"}
                 new  == [old EXCEPT !.totalRuns = @ + 1,
                                     !.failures = IF bad THEN @ + 1 ELSE @]
             IN  testStats_NoLastFailure(tests, i + 1, [acc1 EXCEPT ![k].value = new])

\* testResults.reduce(...) of generateFlakyTestsData, from the i-th result
\* on.  For a test named like an inherited property acc[testName] is that
\* inherited function: the counts are written onto it and acc gets no entry.
RECURSIVE testStats(_, _, _)
testStats(tests, i, acc) ==
    IF i > Len(tests) THEN acc
    ELSE LET test == tests[i]
         IN  IF test.testName \in ObjectPrototypeKeys
             THEN testStats(tests, i + 1, acc)
             ELSE
             LET acc1 == IF Has(acc, test.testName) THEN acc
                         ELSE Append(acc, [key |-> test.testName,
                                 value |-> [testName |-> test.testName,
                                            jobName |-> test.jobName,
                                            totalRuns |-> 0, failures |-> 0,
                                            lastFailure |-> Null]])
                 k    == KeyIndex(acc1, test.testName)
                 old  == acc1[k].value
                 bad  == test.status \in {"failed", "broken"}
                 later == old.lastFailure = Null
                          \/ getTime(test.timestamp) > getTime(old.lastFailure)
                 new  == [old EXCEPT !.totalRuns = @ + 1,
                                     !.failures = IF bad THEN @ + 1 ELSE @,
                                     !.lastFailure = IF bad /\ later
                                                     THEN test.timestamp ELSE @]
             IN  testStats(tests, i + 1, [acc1 EXCEPT ![k].value = new])

\* A list that keeps the tests that never failed.
filterFailing_KeepsAll(stats) == stats

\* .filter(test => test.failures > 0)
filterFailing(stats) == SelectSeq(stats, LAMBDA e : e.value.failures > 0)

\* b.failureRate - a.failureRate > 0
RateLess(a, b) == a.failureRate.num * b.failureRate.den
                    < b.failureRate.num * a.failureRate.den

RECURSIVE InsertByFailureRate(_, _)
InsertByFailureRate(sorted, e) ==
    IF sorted = <<>> THEN <<e>>
    ELSE IF RateLess(sorted[Len(sorted)], e)
    THEN Append(InsertByFailureRate(SubSeq(sorted, 1, Len(sorted) - 1), e),
                sorted[Len(sorted)])
    ELSE Append(sorted, e)

\* .sort((a, b) => b.failureRate - a.failureRate): stable, so tests of equal
\* rate stay in the order of Object.values.
RECURSIVE sortByFailureRate(_)
sortByFailureRate(tests) ==
    IF tests = <<>> THEN <<>>
    ELSE InsertByFailureRate(sortByFailureRate(SubSeq(tests, 1, Len(tests) - 1)),
                             tests[Len(tests)])

\* .slice(0, n)
slice(s, n) == SubSeq(s, 1, IF Len(s) < n THEN Len(s) ELSE n)

\* Analysis.generateFlakyTestsData at the tick-th render
generateFlakyTestsData(reports, tick) ==
    IF Len(reports) = 0 THEN <<>>
    ELSE LET stats  == filterFailing(testStats(testResults(reports), 1, <<>>))
             mapped == [k \in 1..Len(stats) |->
                          LET test == stats[k].value
                          IN  [testName    |-> test.testName,
                               jobName     |-> test.jobName,
                               failureRate |-> [num |-> test.failures * 100,
                                                den |-> test.totalRuns],
                               totalRuns   |-> test.totalRuns,
                               lastFailure |-> IF test.lastFailure = Null
                                               THEN newDate(tick)
                                               ELSE test.lastFailure]]
         IN  slice(sortByFailureRate(mapped), TopN)

TypeError == [kind |-> "TypeError"]

\* report.buildConfig.environment || 'default'
environmentOf(report) ==
    IF "environment" \in DOMAIN report.buildConfig
       /\ report.buildConfig.environment # ""
    THEN report.buildConfig.environment ELSE "default"

\* allureReports.reduce(...) of generateEnvironmentMatrixData, from the
\* i-th record on.  For an environment named like an inherited property
\* acc[env] is truthy and no array: acc[env].push throws a TypeError.
RECURSIVE reportsByEnvironment(_, _, _)
reportsByEnvironment(reports, i, acc) ==
    IF i > Len(reports) THEN [kind |-> "value", value |-> acc]
    ELSE LET env == environmentOf(reports[i])
         IN  IF env \in ObjectPrototypeKeys THEN TypeError
             ELSE LET acc1 == IF Has(acc, env) THEN acc
                              ELSE Append(acc, [key |-> env, value |-> <<>>])
                      k    == KeyIndex(acc1, env)
                  IN  reportsByEnvironment(reports, i + 1,
                          [acc1 EXCEPT ![k].value = Append(@, reports[i])])

\* Analysis.generateEnvironmentMatrixData
generateEnvironmentMatrixData(reports) ==
    IF Len(reports) = 0 THEN [kind |-> "value", value |-> <<>>]
    ELSE LET grouped == reportsByEnvironment(reports, 1, <<>>)
         IN  IF grouped = TypeError THEN TypeError
             ELSE [kind |-> "value", value |->
                    [k \in 1..Len(grouped.value) |->
                       LET agg == aggregatedResults(grouped.value[k].value)
                       IN  [environment |-> grouped.value[k].key,
                            totalTests  |-> agg.total,
                            passedTests |-> agg.passed,
                            failedTests |-> agg.failed,
                            successRate |-> successRate(agg)]]]

\* The report records Analysis is given: well-typed AllureReportData.
Summary(total, passed, failed) ==
    [kind |-> "summary", total |-> total, passed |-> passed, failed |-> failed]

Result(name, status) == [name |-> name, status |-> status]

Date(year, month, day, hours) ==
    [year |-> year, month |-> month, day |-> day, hours |-> hours]

ManyTests == <<"T01", "T02", "T03", "T04", "T05", "T06", "T07", "T08", "T09",
               "T10", "T11">>

ReportUi ==
    [buildConfig |-> [jobName |-> "ui"],
     summary     |-> Summary(7, 5, 2),
     results     |-> << Result("A", "failed"), Result("A", "passed"),
                        Result("A", "passed"), Result("B", "failed"),
                        Result("B", "failed"), Result("C", "passed") >>,
     lastUpdated |-> Date(2026, 11, 5, 9)]

ReportApi ==
    [buildConfig |-> [jobName |-> "api", environment |-> "staging"],
     summary     |-> Summary(10, 8, 2),
     results     |-> << Result("B", "broken"), Result("B", "passed"),
                        Result("B", "passed"), Result("C", "skipped") >>,
     lastUpdated |-> Date(2026, 11, 5, 17)]

ReportNoSummary ==
    [buildConfig |-> [jobName |-> "ui", environment |-> "qa"],
     summary     |-> Null,
     results     |-> <<>>,
     lastUpdated |-> Date(2026, 12, 1, 8)]

ReportEarlier ==
    [buildConfig |-> [jobName |-> "nightly", environment |-> ""],
     summary     |-> Summary(0, 0, 0),
     results     |-> << Result("Z", "failed"), Result("A", "failed") >>,
     lastUpdated |-> Date(2026, 11, 4, 8)]

ReportConstructor ==
    [buildConfig |-> [jobName |-> "unit", environment |-> "constructor"],
     summary     |-> Summary(3, 3, 0),
     results     |-> << Result("constructor", "failed") >>,
     lastUpdated |-> Date(2027, 1, 2, 8)]

ReportMany ==
    [buildConfig |-> [jobName |-> "big", environment |-> "staging"],
     summary     |-> Summary(11, 0, 11),
     results     |-> [j \in 1..Len(ManyTests) |-> Result(ManyTests[j], "failed")],
     lastUpdated |-> Date(2026, 11, 4, 20)]

\* summary.json is passed on as Jenkins served it (response.data): nothing
\* makes total the sum of the other counts.  Here passed exceeds total.
ReportInconsistent ==
    [buildConfig |-> [jobName |-> "legacy", environment |-> "perf"],
     summary     |-> Summary(5, 8, 0),
     results     |-> <<>>,
     lastUpdated |-> Date(2027, 2, 3, 8)]

ReportPool == {ReportUi, ReportApi, ReportNoSummary, ReportEarlier,
               ReportConstructor, ReportMany, ReportInconsistent}

\* One record per build configuration of the batch: up to n records, each at
\* most once, in any order.
ReportLists(n) ==
    { l \in UNION { [1..k -> ReportPool] : k \in 1..n } :
        \A i, j \in 1..Len(l) : i # j => l[i] # l[j] }

\* The query of Analysis resolves: its data replaces the default [].
ReportsArrive(reports) ==
    /\ analysisReports = <<>>
    /\ analysisReports' = reports
    /\ renders' = 0
    /\ UNCHANGED <<historicalTrendData, flakyTestsData, environmentMatrixData>>

\* One render of Analysis: the three derivations are computed in turn.
RenderAnalysis ==
    /\ renders < MaxRenders
    /\ renders' = renders + 1
    /\ historicalTrendData' =
          [kind |-> "value", value |-> generateHistoricalTrendData(analysisReports)]
    /\ flakyTestsData' =
          [kind |-> "value", value |-> generateFlakyTestsData(analysisReports, renders + 1)]
    /\ environmentMatrixData' = generateEnvironmentMatrixData(analysisReports)
    /\ UNCHANGED analysisReports

(***************************************************************************)
(* SpecMetrics: Analysis renders over the records its query delivered.     *)
(***************************************************************************)
InitMetrics == ServiceInit /\ QueryIdle /\ UrlIdle /\ MetricsIdle /\ UiIdle

NextMetrics ==
    \/ (\E l \in ReportLists(MaxReports) : ReportsArrive(l))
          /\ UNCHANGED <<serviceVars, queryVars, urlVars, uiVars>>
    \/ RenderAnalysis /\ UNCHANGED <<serviceVars, queryVars, urlVars, uiVars>>

SpecMetrics == InitMetrics /\ [][NextMetrics]_vars

(***************************************************************************)
(* Dashboard: the filter panel.  `filters` is an object whose fields may   *)
(* be absent: a function from the names of the fields it has.  FilterPanel *)
(* keeps a copy (localFilters) that an effect re-synchronises with         *)
(* `filters` after every change, so a change starts from `filters`.        *)
(***************************************************************************)
UpperCase == <<"A", "I", "J", "P", "U">>
LowerCase == <<"a", "i", "j", "p", "u">>

\* String.prototype.toLowerCase
toLowerCase(s) ==
    [i \in 1..Len(s) |->
        IF \E k \in 1..Len(UpperCase) : UpperCase[k] = s[i]
        THEN LowerCase[CHOOSE k \in 1..Len(UpperCase) : UpperCase[k] = s[i]]
        ELSE s[i]]

\* String.prototype.includes
includes(s, t) ==
    \E i \in 1..(Len(s) - Len(t) + 1) : SubSeq(s, i, i + Len(t) - 1) = t

\* `filters.field` is truthy: present and not the empty string.
FilterSet(f, field) ==
    /\ field \in DOMAIN f
    /\ f[field] # (IF field = "jobName" THEN <<>> ELSE "")

\* FilterPanel: { ...localFilters, [field]: value }
handleFilterChange(f, field, value) ==
    [k \in DOMAIN f \cup {field} |-> IF k = field THEN value ELSE f[k]]

\* FilterPanel: const clearedFilters: DashboardFilters = {}
handleClearFilters == [field \in {} |-> ""]

\* Dashboard: the predicate of allureReports.filter(...)
KeepsReport(report, f) ==
    /\ ~ (/\ FilterSet(f, "jobName")
          /\ ~ includes(toLowerCase(report.buildConfig.jobName),
                        toLowerCase(f["jobName"])))
    /\ ~ (FilterSet(f, "status") /\ report.status # f["status"])
    /\ ~ (/\ FilterSet(f, "environment")
          /\ report.buildConfig.environment # f["environment"])

\* Dashboard: const filteredReports = allureReports.filter(...)
filteredReports == SelectSeq(dashboardReports, LAMBDA report : KeepsReport(report, filters))

\* The records of the Dashboard: the service hands back the build
\* configuration it was given, as Configuration stored it, and status
\* 'success'.
DashboardReport(jobName, environment, tags) ==
    [buildConfig |-> [jobName |-> jobName, environment |-> environment, tags |-> tags],
     status      |-> "success"]

DashboardReportPool ==
    { DashboardReport(<<"u", "i">>, "default", <<"smoke", "nightly">>),
      DashboardReport(<<"A", "P", "I">>, "staging", <<>>),
      DashboardReport(<<"u", "i", "-", "a", "p", "i">>, "staging", <<"nightly">>) }

\* One record per build configuration of the list.
DashboardReportLists(n) ==
    { l \in UNION { [1..k -> DashboardReportPool] : k \in 1..n } :
        \A i, j \in 1..Len(l) : i # j => l[i] # l[j] }

\* What the user can enter in the four fields of the panel.
FilterInputs(field) ==
    CASE field = "jobName"     -> {<<>>, <<"u", "i">>, <<"A", "P">>}
      [] field = "status"      -> {"", "success", "error"}
      [] field = "environment" -> {"", "staging"}
      [] field = "tag"         -> {"", "smoke"}

\* The query of the Dashboard resolves: its data replaces the default [].
DashboardReportsArrive(reports) ==
    /\ dashboardReports = <<>>
    /\ dashboardReports' = reports
    /\ UNCHANGED filters

\* The user changes one field of the panel.
FilterChange(field, value) ==
    /\ filters' = handleFilterChange(filters, field, value)
    /\ UNCHANGED dashboardReports

\* The user presses Clear All, shown while some filter is active.
ClearFilters ==
    /\ \E field \in DOMAIN filters : filters[field] # (IF field = "jobName" THEN <<>> ELSE "")
    /\ filters' = handleClearFilters
    /\ UNCHANGED dashboardReports

(***************************************************************************)
(* SpecFilter: the Dashboard's filter panel over the records delivered.    *)
(***************************************************************************)
InitFilter == ServiceInit /\ QueryIdle /\ UrlIdle /\ MetricsIdle /\ UiIdle

NextFilter ==
    \/ (\E l \in DashboardReportLists(MaxConfigs) : DashboardReportsArrive(l))
          /\ UNCHANGED <<serviceVars, queryVars, urlVars, metricsVars, configVars, linksVars>>
    \/ (\E field \in {"jobName", "status", "environment", "tag"} :
          \E value \in FilterInputs(field) : FilterChange(field, value))
          /\ UNCHANGED <<serviceVars, queryVars, urlVars, metricsVars, configVars, linksVars>>
    \/ ClearFilters /\ UNCHANGED <<serviceVars, queryVars, urlVars, metricsVars, configVars, linksVars>>

SpecFilter == InitFilter /\ [][NextFilter]_vars

(***************************************************************************)
(* Configuration under App.                                                *)
(*                                                                         *)
(* React renders a component with the state of that render; the passive    *)
(* effects of a render run after it, in the order of their declaration,    *)
(* with the values of that render (their closure), and all of them are     *)
(* run before the next render or event handler.  A state update made by an *)
(* effect is rendered afterwards; the updates made while the effects of    *)
(* one render run are rendered together.  A handler runs on the state last *)
(* rendered and its updates are rendered when it returns.                  *)
(***************************************************************************)
\* JSON text is kept as the value it denotes, marked as text: the values
\* stored here are strings, numbers and arrays of them, which JSON.parse
\* gives back as JSON.stringify got them.
JSONstringify(value) == [kind |-> "json", value |-> value]

JSONparse(text) == text.value

\* The closure of the two effects of Configuration.
LoadClosure == [effect |-> "load"]

SaveClosure(c) ==
    [effect |-> "save", authConfig |-> c.authConfig, buildConfigs |-> c.buildConfigs]

\* The load effect: setAuthConfig / setBuildConfigs for each key present.
loadEffect(storage) ==
    [hook \in { h \in {"authConfig", "buildConfigs"} :
                  storage[IF h = "authConfig" THEN AuthKey ELSE BuildsKey] # Null } |->
        JSONparse(storage[IF hook = "authConfig" THEN AuthKey ELSE BuildsKey])]

\* A save effect that stores the authentication only.
saveEffect_AuthOnly(storage, closure) ==
    [storage EXCEPT ![AuthKey] = JSONstringify(closure.authConfig)]

\* The save effect: both keys are written from the closure.
saveEffect(storage, closure) ==
    [storage EXCEPT ![AuthKey]   = JSONstringify(closure.authConfig),
                    ![BuildsKey] = JSONstringify(closure.buildConfigs)]

\* The save effect: the DashboardConfig handed to onConfigUpdate, which is
\* App.handleConfigUpdate: setDashboardConfig(newConfig).
onConfigUpdate(closure) ==
    [kind |-> "dashboardConfig", buildConfigs |-> closure.buildConfigs,
     refreshInterval |-> 30000, maxRetries |-> 3]

\* One effect, run on st = [storage, updates, appUpdate].
RunEffect(e, st) ==
    IF e.effect = "load"
    THEN [st EXCEPT !.updates = loadEffect(st.storage)]
    ELSE [st EXCEPT !.storage   = saveEffect(st.storage, e),
                    !.appUpdate = onConfigUpdate(e)]

\* The effects that are due, run in order.
RECURSIVE FlushEffects(_, _)
FlushEffects(es, st) ==
    IF es = <<>> THEN st ELSE FlushEffects(Tail(es), RunEffect(Head(es), st))

\* The dependencies [authConfig, buildConfigs, onConfigUpdate] of the save
\* effect are compared by identity: setAuthConfig and setBuildConfigs are
\* always called with a new object here, and App.handleConfigUpdate is a
\* new function in every render of App.
DepsChanged(u, a) ==
    \/ "authConfig" \in DOMAIN u
    \/ "buildConfigs" \in DOMAIN u
    \/ a # Null

\* The state of the next render: the pending updates applied.
ApplyUpdates(c, u) ==
    [c EXCEPT !.authConfig   = IF "authConfig" \in DOMAIN u THEN u["authConfig"] ELSE @,
              !.buildConfigs = IF "buildConfigs" \in DOMAIN u THEN u["buildConfigs"] ELSE @]

\* Build URLs typed into the dialog beside UrlUi42 and UrlView: a build
\* number followed by letters, and a text that is no URL.
Url42abc ==
    [scheme |-> "http",
     pathname |-> Join(<< JOB, <<"u", "i">>, <<"4", "2", "a", "b", "c">> >>) \o <<"/">>]
UrlMalformed == [scheme |-> "", pathname |-> <<"j", "e", "n", "k", "i", "n", "s">>]

\* `!newBuildConfig.name`, `!newBuildConfig.buildUrl`
HasName(o) == "name" \in DOMAIN o /\ o["name"] # ""

HasBuildUrl(o) ==
    "buildUrl" \in DOMAIN o /\ o["buildUrl"] # [scheme |-> "", pathname |-> <<>>]

\* The object literal of handleAddBuildConfig and handleUpdateBuildConfig.
JenkinsBuildConfig(o, parsed) ==
    [name        |-> o["name"],
     buildUrl    |-> o["buildUrl"],
     jobName     |-> parsed.jobName,
     buildNumber |-> parsed.buildNumber,
     description |-> IF "description" \in DOMAIN o THEN o["description"] ELSE "",
     environment |-> IF "environment" \in DOMAIN o /\ o["environment"] # ""
                     THEN o["environment"] ELSE "default",
     tags        |-> IF "tags" \in DOMAIN o THEN o["tags"] ELSE <<>>]

\* Configuration.handleAuthChange
handleAuthChange(c, field, value) ==
    [c EXCEPT !.authConfig = [@ EXCEPT ![field] = value]]

\* Configuration.handleTestConnection up to its await.
handleTestConnection(c) ==
    IF c.authConfig.jsessionId = "" \/ c.authConfig.jenkinsBaseUrl = ""
    THEN [c EXCEPT !.testResult = "error"]
    ELSE [c EXCEPT !.isTesting = TRUE, !.testResult = "null"]

\* Configuration.handleTestConnection after its await.
TestEnded(c, isAuthenticated) ==
    [c EXCEPT !.testResult = IF isAuthenticated THEN "success" ELSE "error",
              !.isTesting  = FALSE]

\* Configuration.handleAddBuildConfig
handleAddBuildConfig(c) ==
    IF ~HasName(c.newBuildConfig) \/ ~HasBuildUrl(c.newBuildConfig) THEN c
    ELSE LET parsed == ConfigurationParse(c.newBuildConfig["buildUrl"])
         IN  IF parsed.kind = "buildInfo"
             THEN [c EXCEPT !.buildConfigs =
                               Append(@, JenkinsBuildConfig(c.newBuildConfig, parsed)),
                            !.newBuildConfig = EmptyObject,
                            !.isAddDialogOpen = FALSE]
             ELSE c

\* Configuration.handleEditBuildConfig
handleEditBuildConfig(c, index) ==
    [c EXCEPT !.editingIndex = index,
              !.newBuildConfig = c.buildConfigs[index],
              !.isAddDialogOpen = TRUE]

\* An update that keeps the identity the entry had.
handleUpdateBuildConfig_KeepsIdentity(c) ==
    IF c.editingIndex = 0 \/ ~HasName(c.newBuildConfig) \/ ~HasBuildUrl(c.newBuildConfig)
    THEN c
    ELSE LET parsed == ConfigurationParse(c.newBuildConfig["buildUrl"])
         IN  IF parsed.kind = "buildInfo"
             THEN [c EXCEPT !.buildConfigs =
                               [@ EXCEPT ![c.editingIndex] =
                                   JenkinsBuildConfig(c.newBuildConfig,
                                                      c.buildConfigs[c.editingIndex])],
                            !.newBuildConfig = EmptyObject,
                            !.editingIndex = 0,
                            !.isAddDialogOpen = FALSE]
             ELSE c

\* Configuration.handleUpdateBuildConfig
handleUpdateBuildConfig(c) ==
    IF c.editingIndex = 0 \/ ~HasName(c.newBuildConfig) \/ ~HasBuildUrl(c.newBuildConfig)
    THEN c
    ELSE LET parsed == ConfigurationParse(c.newBuildConfig["buildUrl"])
         IN  IF parsed.kind = "buildInfo"
             THEN [c EXCEPT !.buildConfigs =
                               [i \in 1..Len(@) |->
                                   IF i = c.editingIndex
                                   THEN JenkinsBuildConfig(c.newBuildConfig, parsed)
                                   ELSE @[i]],
                            !.newBuildConfig = EmptyObject,
                            !.editingIndex = 0,
                            !.isAddDialogOpen = FALSE]
             ELSE c

\* Configuration.handleDeleteBuildConfig: prev.filter((_, i) => i !== index)
handleDeleteBuildConfig(c, index) ==
    [c EXCEPT !.buildConfigs =
        [i \in 1..(Len(@) - 1) |-> IF i < index THEN @[i] ELSE @[i + 1]]]

\* Configuration.handleCancel
handleCancel(c) ==
    [c EXCEPT !.newBuildConfig = EmptyObject, !.editingIndex = 0,
              !.isAddDialogOpen = FALSE]

\* A text field of the dialog: setNewBuildConfig(prev => ({...prev, [field]: value}))
setNewBuildConfig(c, field, value) ==
    [c EXCEPT !.newBuildConfig =
        [k \in DOMAIN @ \cup {field} |-> IF k = field THEN value ELSE @[k]]]

\* The Test Connection button.
TestButtonEnabled(c) ==
    ~c.isTesting /\ c.authConfig.jsessionId # "" /\ c.authConfig.jenkinsBaseUrl # ""

\* An Add Build Configuration button that is never disabled.
AddButtonEnabled_Always(c) == TRUE

\* The Add Build Configuration button: disabled={testResult !== 'success'}
AddButtonEnabled(c) == c.testResult = "success"

\* The submit button of the dialog.
SubmitEnabled(c) == HasName(c.newBuildConfig) /\ HasBuildUrl(c.newBuildConfig)

\* What the user enters: the session id, a name and a build URL.
AuthInputs(field) ==
    IF field = "jsessionId" THEN {"session-1"} ELSE {}

DialogInputs(field) ==
    IF field = "name" THEN {"UI tests"}
    ELSE {UrlUi42, UrlView, Url42abc, UrlMalformed}

\* Everything App and Configuration leave alone.
configFrame ==
    <<batches, mounted, isInitialized, queryCache, fetching, urlVars, metricsVars,
      filterVars, linksVars>>

\* Configuration has rendered its last updates and run its effects, and no
\* dialog covers the page.
Interactive == configuration.mounted /\ effects = <<>> /\ DOMAIN updates = {}

OnPage == Interactive /\ ~configuration.isAddDialogOpen

InDialog == Interactive /\ configuration.isAddDialogOpen

\* A handler returns: its updates are rendered, and the save effect is due
\* when it set authConfig or buildConfigs.
Commit(next, setsSaved) ==
    /\ configuration' = next
    /\ effects' = IF setsSaved THEN <<SaveClosure(next)>> ELSE <<>>
    /\ UNCHANGED <<localStorage, updates, appUpdate, dashboardConfig>>

\* The route /configuration is rendered: Configuration mounts, and both
\* effects are due with the initial state.
MountConfiguration ==
    /\ ~configuration.mounted
    /\ effects = <<>>
    /\ configuration' = ConfigurationState(TRUE)
    /\ effects' = <<LoadClosure, SaveClosure(ConfigurationState(TRUE))>>
    /\ updates' = EmptyObject
    /\ UNCHANGED <<localStorage, appUpdate, dashboardConfig, instances,
                   jenkinsServiceInstance>>

\* Another route is rendered: Configuration unmounts, its state is gone.
UnmountConfiguration ==
    /\ configuration.mounted
    /\ effects = <<>>
    /\ configuration' = ConfigurationState(FALSE)
    /\ updates' = EmptyObject
    /\ UNCHANGED <<effects, localStorage, appUpdate, dashboardConfig, instances,
                   jenkinsServiceInstance>>

\* The effects that are due run.
RunEffects ==
    /\ effects # <<>>
    /\ LET st == FlushEffects(effects, [storage |-> localStorage, updates |-> updates,
                                        appUpdate |-> appUpdate])
       IN  /\ localStorage' = st.storage
           /\ updates' = st.updates
           /\ appUpdate' = st.appUpdate
    /\ effects' = <<>>
    /\ UNCHANGED <<configuration, dashboardConfig, instances, jenkinsServiceInstance>>

\* The pending updates are rendered: App with its new dashboardConfig,
\* Configuration with the loaded state; the save effect is due again when
\* one of its dependencies changed.
Render ==
    /\ effects = <<>>
    /\ DOMAIN updates # {} \/ appUpdate # Null
    /\ configuration' = ApplyUpdates(configuration, updates)
    /\ dashboardConfig' = IF appUpdate # Null THEN appUpdate.buildConfigs ELSE dashboardConfig
    /\ effects' = IF configuration.mounted /\ DepsChanged(updates, appUpdate)
                  THEN <<SaveClosure(configuration')>> ELSE <<>>
    /\ updates' = EmptyObject
    /\ appUpdate' = Null
    /\ UNCHANGED <<localStorage, instances, jenkinsServiceInstance>>

AuthChange ==
    /\ OnPage
    /\ \E field \in {"jsessionId", "jenkinsBaseUrl"} : \E value \in AuthInputs(field) :
          Commit(handleAuthChange(configuration, field, value), TRUE)
    /\ UNCHANGED <<instances, jenkinsServiceInstance>>

\* Test Connection is pressed: the handler runs up to its await, and
\* jenkinsService.initialize(authConfig) replaces the service instance.
TestConnection ==
    /\ OnPage
    /\ TestButtonEnabled(configuration)
    /\ Commit(handleTestConnection(configuration), FALSE)
    /\ Initialize(configuration.authConfig)

\* testAuthentication settles and the handler goes on; the dialog may be
\* open by then.
TestConnectionEnds ==
    /\ Interactive
    /\ configuration.isTesting
    /\ \E isAuthenticated \in BOOLEAN :
          Commit(TestEnded(configuration, isAuthenticated), FALSE)
    /\ UNCHANGED <<instances, jenkinsServiceInstance>>

\* Add Build Configuration is pressed: setIsAddDialogOpen(true).
OpenAddDialog ==
    /\ OnPage
    /\ AddButtonEnabled(configuration)
    /\ Commit([configuration EXCEPT !.isAddDialogOpen = TRUE], FALSE)
    /\ UNCHANGED <<instances, jenkinsServiceInstance>>

EditBuildConfig ==
    /\ OnPage
    /\ \E index \in 1..Len(configuration.buildConfigs) :
          Commit(handleEditBuildConfig(configuration, index), FALSE)
    /\ UNCHANGED <<instances, jenkinsServiceInstance>>

DeleteBuildConfig ==
    /\ OnPage
    /\ \E index \in 1..Len(configuration.buildConfigs) :
          Commit(handleDeleteBuildConfig(configuration, index), TRUE)
    /\ UNCHANGED <<instances, jenkinsServiceInstance>>

TypeInDialog ==
    /\ InDialog
    /\ \E field \in {"name", "buildUrl"} : \E value \in DialogInputs(field) :
          Commit(setNewBuildConfig(configuration, field, value), FALSE)
    /\ UNCHANGED <<instances, jenkinsServiceInstance>>

\* The submit button of the dialog: Update while an entry is edited, Add
\* otherwise.  A list holds at most MaxConfigs configurations.
SubmitDialog ==
    /\ InDialog
    /\ SubmitEnabled(configuration)
    /\ configuration.editingIndex = 0 => Len(configuration.buildConfigs) < MaxConfigs
    /\ LET next == IF configuration.editingIndex # 0
                   THEN handleUpdateBuildConfig(configuration)
                   ELSE handleAddBuildConfig(configuration)
       IN  Commit(next, next.buildConfigs # configuration.buildConfigs
                           \/ next.isAddDialogOpen # configuration.isAddDialogOpen)
    /\ UNCHANGED <<instances, jenkinsServiceInstance>>

CancelDialog ==
    /\ InDialog
    /\ Commit(handleCancel(configuration), FALSE)
    /\ UNCHANGED <<instances, jenkinsServiceInstance>>

(***************************************************************************)
(* SpecConfig: Configuration mounts, is used and unmounts under App, in a  *)
(* browser that has no saved configuration or one saved earlier.           *)
(***************************************************************************)
\* What an earlier session saved.
StoredApi ==
    JenkinsBuildConfig([name |-> "UI tests", buildUrl |-> UrlApi7],
                       ConfigurationParse(UrlApi7))

StoredLists == { <<StoredApi>> }

\* App has started: its load effect has put the saved list in dashboardConfig.
InitConfig ==
    /\ ServiceInit /\ UrlIdle /\ MetricsIdle /\ FilterIdle /\ LinksIdle
    /\ mounted = FALSE /\ isInitialized = FALSE /\ queryCache = {} /\ fetching = {}
    /\ configuration = ConfigurationState(FALSE)
    /\ effects = <<>>
    /\ updates = EmptyObject
    /\ appUpdate = Null
    /\ \/ localStorage = EmptyStorage /\ dashboardConfig = <<>>
       \/ \E l \in StoredLists :
             /\ localStorage = saveEffect(EmptyStorage,
                                          [authConfig |-> SavedAuth, buildConfigs |-> l])
             /\ dashboardConfig = l

UserStep ==
    \/ MountConfiguration
    \/ UnmountConfiguration
    \/ AuthChange
    \/ TestConnection
    \/ OpenAddDialog
    \/ EditBuildConfig
    \/ DeleteBuildConfig
    \/ TypeInDialog
    \/ SubmitDialog
    \/ CancelDialog

NextConfig ==
    \/ MountConfiguration /\ UNCHANGED configFrame
    \/ UnmountConfiguration /\ UNCHANGED configFrame
    \/ RunEffects /\ UNCHANGED configFrame
    \/ Render /\ UNCHANGED configFrame
    \/ AuthChange /\ UNCHANGED configFrame
    \/ TestConnection /\ UNCHANGED configFrame
    \/ TestConnectionEnds /\ UNCHANGED configFrame
    \/ OpenAddDialog /\ UNCHANGED configFrame
    \/ EditBuildConfig /\ UNCHANGED configFrame
    \/ DeleteBuildConfig /\ UNCHANGED configFrame
    \/ TypeInDialog /\ UNCHANGED configFrame
    \/ SubmitDialog /\ UNCHANGED configFrame
    \/ CancelDialog /\ UNCHANGED configFrame

SpecConfig == InitConfig /\ [][NextConfig]_vars

(***************************************************************************)
(* SpecConfigLive: SpecConfig with the scheduling React guarantees: the    *)
(* effects that are due do run, and the pending updates are rendered.  The *)
(* user is under no obligation to act.                                     *)
(***************************************************************************)
SpecConfigLive ==
    /\ InitConfig
    /\ [][NextConfig]_vars
    /\ WF_vars(RunEffects /\ UNCHANGED configFrame)
    /\ WF_vars(Render /\ UNCHANGED configFrame)

(***************************************************************************)
(* LinksHub: the table of recent builds, the details dialog and the claim  *)
(* dialog.  Both dialogs are modal: while one is open the table behind it  *)
(* takes no clicks, and the claim dialog lies over the details dialog.     *)
(* Its records are the ones the service builds for the saved               *)
(* configurations.                                                         *)
(***************************************************************************)
StoredUi ==
    JenkinsBuildConfig([name |-> "UI tests", buildUrl |-> UrlUi42],
                       ConfigurationParse(UrlUi42))

\* Every record getAllureReportData can resolve with for one configuration.
LinksReportPool ==
    { getAllureReportData(JenkinsApiService(SavedAuth), buildConfig,
                          getAllureSummary(buildConfig.buildUrl, summary),
                          getAllureResults(buildConfig.buildUrl, results)) :
        buildConfig \in {StoredApi, StoredUi},
        summary \in SummaryResponses, results \in ResultsResponses }

\* One record per build configuration of the list.
LinksReportLists(n) ==
    { l \in UNION { [1..k -> LinksReportPool] : k \in 1..n } :
        \A i, j \in 1..Len(l) : i # j => l[i].buildConfig # l[j].buildConfig }

\* String.prototype.trim
RECURSIVE trimStart(_)
trimStart(text) ==
    IF text # <<>> /\ Head(text) = " " THEN trimStart(Tail(text)) ELSE text

RECURSIVE trimEnd(_)
trimEnd(text) ==
    IF text # <<>> /\ text[Len(text)] = " "
    THEN trimEnd(SubSeq(text, 1, Len(text) - 1)) ELSE text

trim(text) == trimEnd(trimStart(text))

\* LinksHub.isBuildClaimed
isBuildClaimed(hub, jobName, buildNumber) ==
    \E k \in 1..Len(hub.claimedBuilds) :
        /\ hub.claimedBuilds[k].jobName = jobName
        /\ hub.claimedBuilds[k].buildNumber = buildNumber

\* LinksHub.handleClaimBuild (claimedAt, the time of the claim, is left out)
handleClaimBuild(hub, jobName, buildNumber) ==
    IF trim(hub.claimedBy) = <<>> THEN hub      \* toast.error(...); return
    ELSE [hub EXCEPT !.claimedBuilds =
                        Append(@, [buildNumber |-> buildNumber, jobName |-> jobName,
                                   claimedBy |-> trim(hub.claimedBy),
                                   notes |-> trim(hub.claimNotes)]),
                     !.claimDialogOpen = FALSE,
                     !.claimedBy = <<>>,
                     !.claimNotes = <<>>]

\* The claim icon of a row is rendered.
ClaimIconShown(hub, report) ==
    /\ report.status = "error"
    /\ ~isBuildClaimed(hub, report.buildConfig.jobName, report.buildConfig.buildNumber)

\* No dialog covers the table.
TableOpen == linksHub.selectedBuild = Null /\ ~linksHub.claimDialogOpen

\* The query of LinksHub resolves, the first time or on a refresh, for the
\* same configurations.
LinksReportsArrive(reports) ==
    /\ reports # linksReports
    /\ linksReports # <<>> =>
          /\ Len(reports) = Len(linksReports)
          /\ \A i \in 1..Len(reports) : reports[i].buildConfig = linksReports[i].buildConfig
    /\ linksReports' = reports
    /\ UNCHANGED linksHub

\* View Build Details on a row.
OpenDetails ==
    /\ TableOpen
    /\ \E i \in 1..Len(linksReports) :
          linksHub' = [linksHub EXCEPT !.selectedBuild = linksReports[i]]
    /\ UNCHANGED linksReports

\* Close, or onClose, of the details dialog.
CloseDetails ==
    /\ linksHub.selectedBuild # Null
    /\ ~linksHub.claimDialogOpen
    /\ linksHub' = [linksHub EXCEPT !.selectedBuild = Null]
    /\ UNCHANGED linksReports

\* Claim for Investigation on a row.
OpenClaimDialog ==
    /\ TableOpen
    /\ \E i \in 1..Len(linksReports) :
          /\ ClaimIconShown(linksHub, linksReports[i])
          /\ linksHub' = [linksHub EXCEPT !.selectedBuild = linksReports[i],
                                          !.claimDialogOpen = TRUE]
    /\ UNCHANGED linksReports

\* The field Your Name of the claim dialog.
TypeClaimedBy ==
    /\ linksHub.claimDialogOpen
    /\ \E text \in { <<>>, <<" ">>, <<"s", "a", "m">> } :
          linksHub' = [linksHub EXCEPT !.claimedBy = text]
    /\ UNCHANGED linksReports

\* Cancel, or onClose, of the claim dialog.
CancelClaim ==
    /\ linksHub.claimDialogOpen
    /\ linksHub' = [linksHub EXCEPT !.claimDialogOpen = FALSE]
    /\ UNCHANGED linksReports

\* Claim Build: selectedBuild && handleClaimBuild(jobName, buildNumber)
SubmitClaim ==
    /\ linksHub.claimDialogOpen
    /\ linksHub' = IF linksHub.selectedBuild # Null
                   THEN handleClaimBuild(linksHub,
                                         linksHub.selectedBuild.buildConfig.jobName,
                                         linksHub.selectedBuild.buildConfig.buildNumber)
                   ELSE linksHub
    /\ UNCHANGED linksReports

(***************************************************************************)
(* SpecLinks: LinksHub over the records the service delivers.              *)
(***************************************************************************)
InitLinks == ServiceInit /\ QueryIdle /\ UrlIdle /\ MetricsIdle /\ UiIdle

linksFrame == <<serviceVars, queryVars, urlVars, metricsVars, filterVars, configVars>>

NextLinks ==
    \/ (\E l \in LinksReportLists(MaxConfigs) : LinksReportsArrive(l)) /\ UNCHANGED linksFrame
    \/ OpenDetails /\ UNCHANGED linksFrame
    \/ CloseDetails /\ UNCHANGED linksFrame
    \/ OpenClaimDialog /\ UNCHANGED linksFrame
    \/ TypeClaimedBy /\ UNCHANGED linksFrame
    \/ CancelClaim /\ UNCHANGED linksFrame
    \/ SubmitClaim /\ UNCHANGED linksFrame

SpecLinks == InitLinks /\ [][NextLinks]_vars

(***************************************************************************)
(* Properties of the batch aggregator and the report fetcher (Spec).       *)
(***************************************************************************)
Batches == { batches[b] : b \in 1..Len(batches) }

\* The builds of a batch whose record exists.
Done(batch) == { i \in 1..Len(batch.configs) : batch.records[i] # Pending }

AllSettled(batch) ==
    \A i \in 1..Len(batch.configs) :
        Settled(batch.reads[i].summary) /\ Settled(batch.reads[i].results)

\* A read that was sent and ended in a rejected promise.
ReadFailed(read) == read.kind = "settled" /\ Rejected(read.response)

BothFailed(batch, i) ==
    ReadFailed(batch.reads[i].summary) /\ ReadFailed(batch.reads[i].results)

\* C1: a call of getAllureReportsForBuilds never rejects, and once all of
\* its reads have ended, whatever their outcomes, it has resolved with
\* exactly one record for each of its N configurations.
C1_NeverShortCircuits ==
    \A batch \in Batches :
        /\ batch.result.kind # "rejected"
        /\ AllSettled(batch) =>
             /\ batch.result.kind = "resolved"
             /\ Len(batch.result.value) = Len(batch.configs)
             /\ \A i \in 1..Len(batch.configs) : batch.result.value[i] # Pending

\* C1 witness: a batch of two builds has resolved although both reads of
\* one of them failed.
C1_Witness ==
    \E batch \in Batches :
        /\ Len(batch.configs) = 2
        /\ batch.result.kind = "resolved"
        /\ \E i \in 1..2 : BothFailed(batch, i)

\* C2 (as claimed): a record has status error exactly when both reads of
\* its build failed, and status success when at least one succeeded.
C2_ErrorIffBothReadsFailed ==
    \A batch \in Batches : \A i \in Done(batch) :
        batch.reads[i].summary.kind = "settled" =>
            (batch.records[i].status = "error" <=> BothFailed(batch, i))

\* C3: the resolved value has the length and the order of the input:
\* result[i].buildConfig is configs[i] for every i.
C3_OrderMirrorsInput ==
    \A batch \in Batches :
        batch.result.kind = "resolved" =>
            /\ Len(batch.result.value) = Len(batch.configs)
            /\ \A i \in 1..Len(batch.configs) :
                   batch.result.value[i].buildConfig = batch.configs[i]

\* C3 witness: a resolved batch whose second build completed before its
\* first.
C3_Witness ==
    \E batch \in Batches :
        /\ batch.result.kind = "resolved"
        /\ Len(batch.configs) = 2
        /\ batch.order = <<2, 1>>
        /\ batch.reads[1].summary.kind = "settled"
        /\ batch.reads[2].summary.kind = "settled"

\* C4 (as claimed): a configuration whose URL does not resolve gets a
\* record with status error and an error detail, no summary and no
\* outcomes, and sends no read.
C4_UnresolvedUrlIsError ==
    \A batch \in Batches : \A i \in 1..Len(batch.configs) :
        parseBuildUrl(batch.configs[i].buildUrl) = Null =>
            /\ batch.reads[i].summary = NoRead
            /\ batch.reads[i].results = NoRead
            /\ batch.records[i] # Pending
            /\ batch.records[i].status = "error"
            /\ "errorMessage" \in DOMAIN batch.records[i]
            /\ batch.records[i].summary = Null
            /\ batch.records[i].results = EmptyList

WellFormed(which, body) ==
    IF which = "summary" THEN body.kind = "summary" ELSE body.kind = "results"

\* C6 (as claimed): a timeout, a response outside 2xx and a malformed body
\* all give the placeholder of the read (no summary, no outcomes); a
\* malformed body never reaches the record.
C6_EveryFailureGivesPlaceholder ==
    \A batch \in Batches : \A i \in Done(batch) :
        batch.reads[i].summary.kind = "settled" =>
            LET s == batch.reads[i].summary.response
                r == batch.reads[i].results.response
                rec == batch.records[i]
            IN  /\ (Rejected(s) \/ ~WellFormed("summary", s.data)) => rec.summary = Null
                /\ (Rejected(r) \/ ~WellFormed("results", r.data)) => rec.results = EmptyList

(***************************************************************************)
(* Properties of the URL resolver (SpecUrl).                               *)
(***************************************************************************)
\* The non-empty segments of the path of the URL under test.
InputParts == SelectSeq(split(urlInput.pathname), LAMBDA p : Len(p) > 0)

\* A segment that is a non-negative integer in decimal digits.
IsNumber(seg) == Len(seg) > 0 /\ \A i \in 1..Len(seg) : seg[i] \in Digits

RECURSIVE Decimal(_)
Decimal(seg) ==
    IF Len(seg) = 0 THEN 0
    ELSE 10 * Decimal(SubSeq(seg, 1, Len(seg) - 1)) + DigitVal(seg[Len(seg)])

\* The places k where the path reads job/<name>/<number>.
MatchesAt(parts) ==
    { k \in 1..Len(parts) :
        /\ parts[k] = JOB
        /\ k + 2 <= Len(parts)
        /\ IsNumber(parts[k + 2]) }

BuildInfoAt(parts, k) ==
    [kind |-> "buildInfo", jobName |-> parts[k + 1], buildNumber |-> Decimal(parts[k + 2])]

\* C7 (as claimed): for every well-formed URL whose path reads
\* .../job/<name>/<number>/..., with whatever segments before or after,
\* the service and Configuration both return <name> and <number>.
C7_ResolvesEveryMatchingUrl ==
    (~URLThrows(urlInput) /\ MatchesAt(InputParts) # {}) =>
        /\ urlResult # Pending =>
             \E k \in MatchesAt(InputParts) : urlResult = BuildInfoAt(InputParts, k)
        /\ cfgResult # Pending =>
             \E k \in MatchesAt(InputParts) : cfgResult = BuildInfoAt(InputParts, k)

\* The first segment equal to "job", 0 when there is none.
FirstJob(parts) ==
    IF \E k \in 1..Len(parts) : parts[k] = JOB
    THEN CHOOSE k \in 1..Len(parts) :
            parts[k] = JOB /\ \A j \in 1..(k - 1) : parts[j] # JOB
    ELSE 0

\* C7 (amended): for every well-formed URL in whose path the first segment
\* equal to "job" is followed by <name> and then by a segment <number> of
\* decimal digits, the service and Configuration both return jobName =
\* <name>, verbatim, and buildNumber = <number>.
C7_ResolvesAtFirstJobSegment ==
    (~URLThrows(urlInput) /\ FirstJob(InputParts) \in MatchesAt(InputParts)) =>
        /\ urlResult # Pending =>
             urlResult = BuildInfoAt(InputParts, FirstJob(InputParts))
        /\ cfgResult # Pending =>
             cfgResult = BuildInfoAt(InputParts, FirstJob(InputParts))

\* C7 witness: a URL with a segment before job/<name>/<number> has been
\* resolved by both, the name keeping its capital letter.
C7_Witness ==
    /\ Len(InputParts) = 4
    /\ InputParts[1] # JOB
    /\ FirstJob(InputParts) = 2
    /\ urlResult = [kind |-> "buildInfo", jobName |-> <<"J", "o", "b">>, buildNumber |-> 42]
    /\ cfgResult = urlResult

\* C8 (as claimed): an input that does not conform (not a well-formed URL,
\* no "job" segment followed by two more, or a segment after the name that
\* is not a non-negative integer) is rejected by the resolver.
C8_RejectsNonConformingUrl ==
    (URLThrows(urlInput) \/ MatchesAt(InputParts) = {}) =>
        /\ urlResult # Pending => urlResult = Null
        /\ cfgResult # Pending => cfgResult.kind = "alert"

(***************************************************************************)
(* Properties of a batch under re-authentication (SpecAuth).               *)
(***************************************************************************)
\* C9 (as claimed): whatever initialize or updateAuth does while a batch is
\* in flight, every read of the batch is sent with, and every reportUrl of
\* its records is built from, the base URL and the session id that were
\* current when the batch started.
C9_BatchKeepsCredentialSnapshot ==
    \A batch \in Batches : \A i \in 1..Len(batch.configs) :
        /\ \A which \in {"summary", "results"} :
              batch.reads[i][which] # NoRead =>
                  /\ batch.reads[i][which].request.baseURL = batch.started.baseURL
                  /\ batch.reads[i][which].request.cookie = batch.started.jsessionId
        /\ (batch.records[i] # Pending /\ batch.records[i].reportUrl.kind = "allure") =>
              batch.records[i].reportUrl.base = batch.started.baseURL

(***************************************************************************)
(* Properties of the query layer (SpecQuery).                              *)
(***************************************************************************)
\* C10: the reports the Dashboard shows for the current configuration list
\* are the result of a fetch of that very list: record i belongs to
\* configuration i of the current list, however the fetches of replaced
\* lists end.
C10_ShownReportsBelongToCurrentList ==
    (mounted /\ allureReports # <<>>) =>
        /\ Len(allureReports) = Len(dashboardConfig)
        /\ \A i \in 1..Len(allureReports) :
               allureReports[i].buildConfig = dashboardConfig[i]
        /\ \E batch \in Batches :
               /\ batch.configs = dashboardConfig
               /\ batch.result.kind = "resolved"
               /\ batch.result.value = allureReports

\* C10 witness: the list was replaced while the fetch of the old list was
\* in flight; the reports of the new list are shown and the old fetch has
\* still to arrive.
C10_Witness ==
    /\ mounted
    /\ allureReports # <<>>
    /\ \E f \in fetching :
          /\ f.key # QueryKey(dashboardConfig)
          /\ batches[f.batch].configs # dashboardConfig
          /\ batches[f.batch].result = Pending

(***************************************************************************)
(* C11: full fan-out.  getAllureReportsForBuilds issues both reads of      *)
(* every configuration whose URL resolves when it is called: in every      *)
(* state each such read of each batch has been sent (it is in flight or    *)
(* has ended), whatever the state of the other reads, and in the step      *)
(* that makes the call all of them are in flight at once.                  *)
(***************************************************************************)
Issued(read) == read.kind \in {"inflight", "settled"}

C11_FullFanOut ==
    \A batch \in Batches : \A i \in 1..Len(batch.configs) :
        parseBuildUrl(batch.configs[i].buildUrl) # Null =>
            Issued(batch.reads[i].summary) /\ Issued(batch.reads[i].results)

\* Two builds, the four reads outstanding together; and a later build whose
\* read has ended while both reads of the first build are still in flight.
C11_Witness ==
    \E batch \in Batches :
        /\ Len(batch.configs) = 2
        /\ batch.reads[1].summary.kind = "inflight"
        /\ batch.reads[1].results.kind = "inflight"
        /\ batch.reads[2].summary.kind = "settled"
        /\ batch.reads[2].results.kind = "inflight"

(***************************************************************************)
(* C12: the reportUrl of every record of a build whose URL resolves is     *)
(* {base}/job/{job}/{n}/allure/ with the base URL of the connection and    *)
(* the job name and build number resolved from buildConfig.buildUrl,       *)
(* whatever the two reads ended with.                                      *)
(***************************************************************************)
C12_ReportUrlFromResolvedIdentity ==
    \A batch \in Batches : \A i \in 1..Len(batch.configs) :
        LET buildInfo == parseBuildUrl(batch.configs[i].buildUrl)
        IN  (buildInfo # Null /\ i \in Done(batch)) =>
                batch.records[i].reportUrl =
                    [kind |-> "allure", base |-> batch.started.baseURL,
                     job |-> buildInfo.jobName, n |-> buildInfo.buildNumber]

(***************************************************************************)
(* The metrics of Analysis, stated over the records themselves.            *)
(***************************************************************************)
Rendered == renders > 0

Trend == historicalTrendData.value
Flaky == flakyTestsData.value

\* The runs of a test name over all records, and the failing ones.
RunsOf(name) ==
    { <<i, j>> \in (1..Len(analysisReports)) \X (1..Len(ManyTests)) :
        /\ j <= Len(analysisReports[i].results)
        /\ analysisReports[i].results[j].name = name }

FailuresOf(name) ==
    { r \in RunsOf(name) :
        analysisReports[r[1]].results[r[2]].status \in {"failed", "broken"} }

TestNames ==
    UNION { { analysisReports[i].results[j].name :
                j \in 1..Len(analysisReports[i].results) } :
            i \in 1..Len(analysisReports) }

\* The records that have a summary, and the calendar day of a record.
WithSummary == { i \in 1..Len(analysisReports) : analysisReports[i].summary # Null }

DayOf(i) == << analysisReports[i].lastUpdated.year,
               analysisReports[i].lastUpdated.month,
               analysisReports[i].lastUpdated.day >>

DayBefore(d, e) ==
    \/ d[1] < e[1]
    \/ d[1] = e[1] /\ d[2] < e[2]
    \/ d[1] = e[1] /\ d[2] = e[2] /\ d[3] < e[3]

RECURSIVE SumOf(_, _)
SumOf(S, field) ==
    IF S = {} THEN 0
    ELSE LET i == CHOOSE x \in S : TRUE
         IN  analysisReports[i].summary[field] + SumOf(S \ {i}, field)

\* The trend points of the day of record i.
PointsOf(i) ==
    { k \in 1..Len(Trend) : Trend[k].date = format(analysisReports[i].lastUpdated) }

(***************************************************************************)
(* C13: the flaky-test list is the first 10 of the ranking by descending   *)
(* failure rate, then descending number of runs, then ascending test name: *)
(* each entry is ranked before the next one, and a failing test that is    *)
(* left out is ranked after every entry of a full list.                    *)
(***************************************************************************)
NamesAscending ==
    <<"A", "B", "C", "T01", "T02", "T03", "T04", "T05", "T06", "T07", "T08",
      "T09", "T10", "T11", "Z", "constructor">>

NameRank(name) == CHOOSE r \in 1..Len(NamesAscending) : NamesAscending[r] = name

Runs(name) == Cardinality(RunsOf(name))
Failures(name) == Cardinality(FailuresOf(name))

RankedBefore(a, b) ==
    LET ra == Failures(a) * Runs(b)
        rb == Failures(b) * Runs(a)
    IN  \/ ra > rb
        \/ ra = rb /\ Runs(a) > Runs(b)
        \/ ra = rb /\ Runs(a) = Runs(b) /\ NameRank(a) < NameRank(b)

C13_FlakyListIsRanked ==
    Rendered =>
        /\ \A k \in 1..(Len(Flaky) - 1) :
              RankedBefore(Flaky[k].testName, Flaky[k + 1].testName)
        /\ \A name \in TestNames :
              (Failures(name) > 0 /\ \A k \in 1..Len(Flaky) : Flaky[k].testName # name)
              => /\ Len(Flaky) = TopN
                 /\ \A k \in 1..Len(Flaky) : RankedBefore(Flaky[k].testName, name)

(***************************************************************************)
(* C14: every entry of the flaky-test list is a test with at least one     *)
(* failed or broken run, its totalRuns is the number of its runs over all  *)
(* records and its failureRate is failing runs / totalRuns x 100; for      *)
(* A (3 runs, 1 failed), B (5 runs, 3 failing), C (2 runs, none failing)   *)
(* the list is B with 60 and then A with 100/3.                            *)
(***************************************************************************)
C14_FlakyEntriesCountRuns ==
    Rendered =>
        /\ \A k \in 1..Len(Flaky) :
              /\ Failures(Flaky[k].testName) >= 1
              /\ Flaky[k].totalRuns = Runs(Flaky[k].testName)
              /\ Flaky[k].failureRate.num * Runs(Flaky[k].testName)
                   = Failures(Flaky[k].testName) * 100 * Flaky[k].failureRate.den
        /\ analysisReports = <<ReportUi, ReportApi>> =>
              /\ Len(Flaky) = 2
              /\ Flaky[1].testName = "B"
              /\ Flaky[1].failureRate.num = 60 * Flaky[1].failureRate.den
              /\ Flaky[2].testName = "A"
              /\ 3 * Flaky[2].failureRate.num = 100 * Flaky[2].failureRate.den

C14_Witness ==
    /\ Rendered
    /\ analysisReports = <<ReportUi, ReportApi>>
    /\ Runs("A") = 3 /\ Failures("A") = 1
    /\ Runs("B") = 5 /\ Failures("B") = 3
    /\ Runs("C") = 2 /\ Failures("C") = 0
    /\ Len(Flaky) = 2
    /\ Flaky[1].testName = "B"

(***************************************************************************)
(* C15: the trend has exactly one point for the calendar day of every      *)
(* record with a summary and no other point; the totals of a point are the *)
(* sums of total / passed / failed over the records with a summary of its  *)
(* day; the points are in strictly ascending order of their days.          *)
(***************************************************************************)
C15_OnePointPerDayAscending ==
    Rendered =>
        /\ \A i \in WithSummary : Cardinality(PointsOf(i)) = 1
        /\ \A k \in 1..Len(Trend) : \E i \in WithSummary :
              LET day == { j \in WithSummary : DayOf(j) = DayOf(i) }
              IN  /\ k \in PointsOf(i)
                  /\ Trend[k].totalTests  = SumOf(day, "total")
                  /\ Trend[k].passedTests = SumOf(day, "passed")
                  /\ Trend[k].failedTests = SumOf(day, "failed")
        /\ \A i, j \in WithSummary : \A k \in PointsOf(i) : \A l \in PointsOf(j) :
              DayBefore(DayOf(i), DayOf(j)) => k < l

\* Two records of one day, and a record of an earlier day that comes later
\* in the list.
C15_Witness ==
    /\ Rendered
    /\ Len(Trend) >= 2
    /\ \E i, j \in WithSummary : i # j /\ DayOf(i) = DayOf(j)
    /\ \E i, j \in WithSummary : i < j /\ DayBefore(DayOf(j), DayOf(i))

(***************************************************************************)
(* C16 as stated: every calendar day on which a record was fetched has a   *)
(* trend point, with zero totals and successRate 0 when none of the        *)
(* records of the day has a summary.                                       *)
(***************************************************************************)
C16_EveryFetchDayHasPoint ==
    Rendered =>
        \A i \in 1..Len(analysisReports) :
            /\ PointsOf(i) # {}
            /\ (\A j \in WithSummary : DayOf(j) # DayOf(i)) =>
                  \A k \in PointsOf(i) :
                      Trend[k].totalTests = 0 /\ Trend[k].successRate = 0

(***************************************************************************)
(* C16 amended: a record lacking a summary takes no part in the trend.  A  *)
(* calendar day has a trend point exactly when a record with a summary was *)
(* fetched on it; a day whose records all lack a summary has no point.     *)
(***************************************************************************)
C16_OnlyDaysWithSummaryHavePoint ==
    Rendered =>
        \A i \in 1..Len(analysisReports) :
            PointsOf(i) # {} <=> \E j \in WithSummary : DayOf(j) = DayOf(i)

\* A day with a record but no summary beside a day that has one.
C16_Witness ==
    /\ Rendered
    /\ Len(Trend) >= 1
    /\ \E i \in 1..Len(analysisReports) :
          /\ i \notin WithSummary
          /\ \A j \in WithSummary : DayOf(j) # DayOf(i)
          /\ PointsOf(i) = {}

(***************************************************************************)
(* C17: in every trend point and environment entry successRate is          *)
(* passed / total x 100 rounded to the nearest hundredth, and 0 when total *)
(* is 0; total 7 and passed 5 give 71.43.                                  *)
(***************************************************************************)
Abs(x) == IF x < 0 THEN -x ELSE x

\* hundredths is a nearest count of hundredths of passed / total x 100
NearestHundredth(hundredths, passed, total) ==
    IF total = 0 THEN hundredths = 0
    ELSE 2 * Abs(hundredths * total - 10000 * passed) <= total

EnvironmentEntries ==
    IF environmentMatrixData.kind = "value" THEN environmentMatrixData.value ELSE <<>>

C17_SuccessRateIsRounded ==
    Rendered =>
        /\ \A k \in 1..Len(Trend) :
              /\ NearestHundredth(Trend[k].successRate, Trend[k].passedTests,
                                  Trend[k].totalTests)
              /\ (Trend[k].totalTests = 7 /\ Trend[k].passedTests = 5)
                    => Trend[k].successRate = 7143
        /\ \A k \in 1..Len(EnvironmentEntries) :
              /\ NearestHundredth(EnvironmentEntries[k].successRate,
                                  EnvironmentEntries[k].passedTests,
                                  EnvironmentEntries[k].totalTests)
              /\ (EnvironmentEntries[k].totalTests = 7
                  /\ EnvironmentEntries[k].passedTests = 5)
                    => EnvironmentEntries[k].successRate = 7143

C17_Witness ==
    /\ Rendered
    /\ \E k \in 1..Len(Trend) :
          /\ Trend[k].totalTests = 7 /\ Trend[k].passedTests = 5
          /\ Trend[k].successRate = 7143
    /\ \E k \in 1..Len(EnvironmentEntries) :
          /\ EnvironmentEntries[k].totalTests = 0
          /\ EnvironmentEntries[k].successRate = 0

(***************************************************************************)
(* C18: the environment rollup has exactly one entry for the environment   *)
(* of every record (a missing or empty environment counts as "default")    *)
(* and no other entry, and the totals of an entry are the sums over the    *)
(* records of its environment that have a summary.                         *)
(***************************************************************************)
EnvironmentKey(i) ==
    IF "environment" \in DOMAIN analysisReports[i].buildConfig
    THEN (IF analysisReports[i].buildConfig.environment = "" THEN "default"
          ELSE analysisReports[i].buildConfig.environment)
    ELSE "default"

C18_OneEntryPerEnvironment ==
    Rendered =>
        /\ environmentMatrixData.kind = "value"
        /\ \A i \in 1..Len(analysisReports) :
              Cardinality({ k \in 1..Len(EnvironmentEntries) :
                 EnvironmentEntries[k].environment = EnvironmentKey(i) }) = 1
        /\ \A k \in 1..Len(EnvironmentEntries) : \E i \in 1..Len(analysisReports) :
              LET same == { j \in WithSummary : EnvironmentKey(j) = EnvironmentKey(i) }
              IN  /\ EnvironmentEntries[k].environment = EnvironmentKey(i)
                  /\ EnvironmentEntries[k].totalTests  = SumOf(same, "total")
                  /\ EnvironmentEntries[k].passedTests = SumOf(same, "passed")
                  /\ EnvironmentEntries[k].failedTests = SumOf(same, "failed")

Ordinary(response) == IF response = AuthRejected THEN HttpError ELSE response

C20_AuthRejectionIsDistinct ==
    \A batch \in Batches : \A i \in 1..Len(batch.configs) :
        LET summary == ResponseOf(batch.reads[i].summary)
            results == ResponseOf(batch.reads[i].results)
            buildUrl == batch.configs[i].buildUrl
        IN  (i \in Done(batch) /\ AuthRejected \in {summary, results}) =>
                batch.records[i] #
                    getAllureReportData(instances[batch.inst], batch.configs[i],
                        getAllureSummary(buildUrl, Ordinary(summary)),
                        getAllureResults(buildUrl, Ordinary(results)))

(***************************************************************************)
(* Properties of the Dashboard's filter panel (SpecFilter).                *)
(***************************************************************************)
\* C21: whenever the tag filter is set, every report of the Dashboard's
\* filtered list has that tag among buildConfig.tags, and satisfies the
\* job-name, status and environment filters as well.
C21_TagFilterApplies ==
    FilterSet(filters, "tag") =>
        \A i \in 1..Len(filteredReports) :
            /\ \E t \in 1..Len(filteredReports[i].buildConfig.tags) :
                  filteredReports[i].buildConfig.tags[t] = filters["tag"]
            /\ KeepsReport(filteredReports[i], filters)

(***************************************************************************)
(* Properties of Configuration under App (SpecConfig).                     *)
(***************************************************************************)
\* C22: whatever the user edited, added, updated or deleted, once the save
\* effect has run (nothing of Configuration is left to render or to run),
\* localStorage 'jenkins-auth-config' is the current authConfig and
\* 'jenkins-build-configs' the current buildConfigs list.
C22_StorageFollowsState ==
    Interactive =>
        /\ localStorage[AuthKey] = JSONstringify(configuration.authConfig)
        /\ localStorage[BuildsKey] = JSONstringify(configuration.buildConfigs)

\* C22 witness: nothing was saved earlier; the session id has been entered
\* and two build configurations added, and the save effect has run.
C22_Witness ==
    /\ Interactive
    /\ configuration.authConfig = [InitialAuthConfig EXCEPT !.jsessionId = "session-1"]
    /\ Len(configuration.buildConfigs) = 2
    /\ JSONparse(localStorage[BuildsKey]) = configuration.buildConfigs

\* The dialog is open for a new entry.
AddDialogOpen ==
    configuration.mounted /\ configuration.isAddDialogOpen /\ configuration.editingIndex = 0

\* C23: the dialog opens for a new entry, stays open for one, and a
\* configuration is appended from it, only while the result of the most
\* recent connection test is success.
C23_AddOnlyAfterSuccessfulTest ==
    [][ /\ AddDialogOpen' => configuration'.testResult = "success"
        /\ (AddDialogOpen /\ Len(configuration'.buildConfigs) > Len(configuration.buildConfigs))
              => configuration.testResult = "success" ]_vars

\* C23 witness: a configuration was appended from the dialog (the list saved
\* earlier was empty or absent) after a successful test.
C23_Witness ==
    /\ Interactive
    /\ configuration.testResult = "success"
    /\ ~configuration.isAddDialogOpen
    /\ Len(configuration.buildConfigs) = 1
    /\ configuration.buildConfigs[1].buildUrl = UrlUi42
    /\ configuration.authConfig.jenkinsBaseUrl = InitialAuthConfig.jenkinsBaseUrl

\* C24: every build configuration of the list stores the jobName and the
\* buildNumber that the service's parseBuildUrl returns for its buildUrl.
C24_CachedIdentityMatchesUrl ==
    \A i \in 1..Len(configuration.buildConfigs) :
        LET config == configuration.buildConfigs[i]
        IN  parseBuildUrl(config.buildUrl) =
               [kind |-> "buildInfo", jobName |-> config.jobName,
                buildNumber |-> config.buildNumber]

\* C24 witness: no connection test has run, so nothing was added; the
\* entry saved earlier for build 7 of job api%20v2 has been replaced through
\* the dialog by one for build 42 of job ui.
C24_Witness ==
    /\ Interactive
    /\ instances = <<>>
    /\ Len(configuration.buildConfigs) = 1
    /\ configuration.buildConfigs[1].buildUrl = UrlUi42
    /\ configuration.buildConfigs[1].jobName = <<"u", "i">>
    /\ configuration.buildConfigs[1].buildNumber = 42

\* C27: when localStorage holds a saved authentication and build list, the
\* effects of the mount of Configuration leave both as they are.
C27_SavedConfigSurvivesMount ==
    [][ (/\ effects # <<>>
         /\ Head(effects) = LoadClosure
         /\ localStorage[AuthKey] # Null
         /\ localStorage[BuildsKey] # Null)
           => localStorage' = localStorage ]_vars

\* The path of a build URL, split in its segments.
PartsOf(buildUrl) == SelectSeq(split(buildUrl.pathname), LAMBDA seg : Len(seg) > 0)

\* What the dialog holds is to be rejected: no name, no URL, a malformed
\* URL, a URL without /job/<name>/<number>, or a build number that is not
\* a number.
RejectedEntry(o) ==
    \/ ~HasName(o)
    \/ ~HasBuildUrl(o)
    \/ URLThrows(o["buildUrl"])
    \/ LET parts == PartsOf(o["buildUrl"])
           k     == FirstJob(parts)
       IN  k = 0 \/ k + 2 > Len(parts) \/ ~IsNumber(parts[k + 2])

\* C28: a rejected add or update leaves buildConfigs and the dialog as they
\* are; a successful update replaces only the entry at editingIndex; a
\* delete removes only the entry at the given index; the other entries
\* keep their order.
C28_RejectedSubmitChangesNothing ==
    LET c == configuration
    IN  /\ (c.mounted /\ c.isAddDialogOpen /\ RejectedEntry(c.newBuildConfig)) =>
              /\ handleAddBuildConfig(c) = c
              /\ handleUpdateBuildConfig(c) = c
        /\ (c.mounted /\ c.isAddDialogOpen /\ c.editingIndex # 0) =>
              LET n == handleUpdateBuildConfig(c).buildConfigs
              IN  /\ Len(n) = Len(c.buildConfigs)
                  /\ \A j \in 1..Len(n) : j # c.editingIndex => n[j] = c.buildConfigs[j]
        /\ \A index \in 1..Len(c.buildConfigs) :
              LET n == handleDeleteBuildConfig(c, index).buildConfigs
              IN  /\ Len(n) = Len(c.buildConfigs) - 1
                  /\ \A j \in 1..Len(n) :
                        n[j] = c.buildConfigs[IF j < index THEN j ELSE j + 1]

\* Nothing of App or Configuration is left to run or to render.
Quiescent == effects = <<>> /\ DOMAIN updates = {} /\ appUpdate = Null

\* C26: the chain save effect -> onConfigUpdate -> setDashboardConfig ->
\* re-render comes to rest: unless the user goes on acting for ever, a
\* quiescent state is reached again and again.
C26_PropagationTerminates ==
    \/ []<>Quiescent
    \/ []<><<UserStep /\ UNCHANGED configFrame>>_vars

(***************************************************************************)
(* Properties of LinksHub (SpecLinks).                                     *)
(***************************************************************************)
\* C25: claimedBuilds holds at most one claim for each (jobName,
\* buildNumber) pair.
C25_AtMostOneClaimPerBuild ==
    \A i, j \in 1..Len(linksHub.claimedBuilds) :
        (/\ linksHub.claimedBuilds[i].jobName = linksHub.claimedBuilds[j].jobName
         /\ linksHub.claimedBuilds[i].buildNumber = linksHub.claimedBuilds[j].buildNumber)
            => i = j

\* C25: the case of the claim does not arise.  No record of the service has
\* status 'error', so no row shows the claim icon, the claim dialog never
\* opens and nothing is ever claimed.
C25_NothingIsEverClaimed ==
    /\ \A i \in 1..Len(linksReports) : ~ClaimIconShown(linksHub, linksReports[i])
    /\ ~linksHub.claimDialogOpen
    /\ linksHub.claimedBuilds = <<>>

(***************************************************************************)
(* Properties of the Dashboard's use of the service (SpecQuery).           *)
(***************************************************************************)
\* C29: whenever the component's query may call getAllureReportsForBuilds
\* (it is enabled), a fetch is in flight, or records are there for the
\* links that call getAllureReportUrl and getBuildConsoleUrl,
\* jenkinsService.initialize has been called: getInstance does not throw.
C29_ServiceInitializedBeforeUse ==
    /\ (mounted /\ Enabled) => jenkinsServiceInstance # 0
    /\ (fetching # {} \/ queryCache # {}) => jenkinsServiceInstance # 0

\* C29 witness: the query is enabled and has called the service.
C29_Witness ==
    /\ mounted
    /\ Enabled
    /\ fetching # {}
    /\ jenkinsServiceInstance # 0
    /\ Len(batches) > 0

(***************************************************************************)
(* C30: for every batch of report records, also one whose summaries do not *)
(* satisfy total = passed + failed + broken + skipped, the trend and the   *)
(* environment rollup are computed without an error and every successRate  *)
(* in them lies between 0 and 100 (0 and 10000 hundredths).  The batches   *)
(* with an environment named like an inherited property, which C18 shows   *)
(* to throw, are left aside so that what is stated here is the range.      *)
(***************************************************************************)
C30_SuccessRateWithinBounds ==
    (Rendered /\ \A i \in 1..Len(analysisReports) :
                     EnvironmentKey(i) \notin ObjectPrototypeKeys) =>
        /\ environmentMatrixData.kind = "value"
        /\ \A k \in 1..Len(Trend) : Trend[k].successRate \in 0..10000
        /\ \A k \in 1..Len(EnvironmentEntries) :
              EnvironmentEntries[k].successRate \in 0..10000

====
